---- MODULE Spec2Model ----
(***************************************************************************)
(* Persistence / reconciliation core of the dessert cost calculator        *)
(* (src/app.js, lines 1-1254): the Row Store (localStorage rows per        *)
(* recipe), the Profile Store (IndexedDB records), the Ingredient Cache,   *)
(* the recipe lifecycle handlers and the debounced save.                   *)
(*                                                                         *)
(* JavaScript runs one handler at a time; a handler is suspended only at   *)
(* an await on real I/O (an IndexedDB request or transaction).  Every      *)
(* action below is one such run-to-completion slice: a user event, a timer *)
(* callback, or the continuation of a handler after its IndexedDB request. *)
(***************************************************************************)
EXTENDS Integers, Sequences, FiniteSets, TLC

VARIABLES
  lsRows,        \* localStorage[ROWS_KEY_PREFIX + recipeName]  (Row Store)
  lsCurrent,     \* localStorage[CURRENT_RECIPE_KEY]            ("" = missing)
  lsCache,       \* localStorage[ING_CACHE_KEY]                 (Ingredient Cache)
  lsMargin,      \* localStorage[MARGIN_KEY]                    (margin percentage)
  lsFolders,     \* localStorage[FOLDERS_KEY_V1]                (folder list)
  lsMeta,        \* localStorage[META_KEY_V1]                   (recipe metadata)
  idb,           \* IndexedDB object store STORE_ITEMS          (Profile Store)
  DB,            \* let DB: TRUE = an open connection, FALSE = null
  currentRecipe, \* let currentRecipe
  filterFolder,  \* let filterFolder ("" = all folders)
  rowsState,     \* let rowsState (meaningful when rowsLoaded)
  rowsLoaded,    \* FALSE while rowsState is still null
  saveTimer,     \* let saveTimer: 0 = null, else a timeout id (possibly fired)
  timers,        \* timeout ids scheduled and not yet fired or cleared
  recipeList,    \* the recipe items rendered in #recipeList (click targets)
  tasks,         \* the async handlers in flight, each at its await
  rowsOwner,     \* history: the recipe rowsState was resolved or created for
  currentBy,     \* history: the function that assigned currentRecipe last
  burst,         \* history: the current run of consecutive edits
  edited,        \* history: the last edit, its recipe and the rows it left
  events         \* history: number of user events so far

vars == <<lsRows, lsCurrent, lsCache, lsMargin, lsFolders, filterFolder, lsMeta, idb, DB, currentRecipe, rowsState,
          rowsLoaded, saveTimer, timers, recipeList, tasks, rowsOwner, currentBy,
          burst, edited, events>>

(***************************************************************************)
(* Bounds of the model                                                     *)
(***************************************************************************)
MaxRows   == 2   \* longest row sequence the add-row button may build
MaxEvents == 3   \* user events in one behaviour
MaxTasks  == 2   \* async handlers in flight at once
MaxTimers == 2   \* timeout ids available at once

(***************************************************************************)
(* Value domains                                                           *)
(***************************************************************************)
RecipeNames     == {"A", "B", "Default"}
\* a.localeCompare(b) on the names a record or a Row Store key may carry (an
\* imported document may name a recipe "", " " or, as an array index, "0", a
\* dbPutItems call a recipe "A::z"): "" < " " < "0" < "A" < "A::z" < "B" < "Default"
SortedRecipeNames == <<"", " ", "0", "A", "A::z", "B", "Default">>
IngredientNames == {"x", "y"}
SortedIngredientNames == <<"x", "y", "z::x">>
\* what a name input may hold: untrimmed text included
RowNames        == {"", "x", "y", " x"}

\* A JSON / input value as n() sees it: a finite number, a string that
\* Number() parses to v, a string or number that is not finite, null/undefined.
Num(v)  == [k |-> "num", v |-> v]
Str(v)  == [k |-> "str", v |-> v]
NaNRaw  == [k |-> "nan", v |-> 0]
NilRaw  == [k |-> "nil", v |-> 0]

\* function n(v)
n(v) == IF v.k \in {"num", "str"} THEN v.v ELSE 0

\* String.prototype.trim on the texts used
Trim(s) ==
  CASE s = " x" -> "x" [] s = " B" -> "B" [] s = " F" -> "F" [] s = " " -> "" [] OTHER -> s

RankIn(seq, x) == CHOOSE i \in 1..Len(seq) : seq[i] = x

\* function defaultRows()
defaultRows == << [name |-> "", cost |-> 0, amount |-> 0, recipeAmount |-> 0] >>

\* function getRowsKey / ROWS_KEY_PREFIX: the Row Store is indexed by recipe name
AbsentEntry    == [st |-> "absent",    rows |-> <<>>]
MalformedEntry == [st |-> "malformed", rows |-> <<>>]

\* JSON.stringify(rows) in saveRowsForRecipe: numbers are written as numbers
Stringify(rows) ==
  [st |-> "rows",
   rows |-> [i \in 1..Len(rows) |->
               [name |-> rows[i].name, cost |-> Num(rows[i].cost),
                amount |-> Num(rows[i].amount),
                recipeAmount |-> Num(rows[i].recipeAmount)]]]

\* function loadRowsForRecipe(recipeName): null (ok = FALSE) or the rows, coerced
loadRowsForRecipe(ls, recipeName) ==
  LET raw == ls[recipeName] IN
  IF raw.st # "rows" THEN [ok |-> FALSE, rows |-> <<>>]
  ELSE [ok |-> TRUE,
        rows |-> [i \in 1..Len(raw.rows) |->
                    [name |-> raw.rows[i].name, cost |-> n(raw.rows[i].cost),
                     amount |-> n(raw.rows[i].amount),
                     recipeAmount |-> n(raw.rows[i].recipeAmount)]]]

\* function loadIngredientCache(): {} when the stored text is not an object
NoCacheEntry == [has |-> FALSE, cost |-> NilRaw, amount |-> NilRaw]
EmptyCache == [i \in IngredientNames |-> NoCacheEntry]
loadIngredientCache(stored) ==
  IF stored.st = "obj" THEN stored.m ELSE EmptyCache

\* key = `${recipeName}::${Ingredient}`
Key(recipeName, Ingredient) == recipeName \o "::" \o Ingredient

\* IndexedDB returns records in key order; on the names used here the order of
\* the keys is the order of (recipeName, Ingredient)
KeyRank(rec) ==
  RankIn(SortedRecipeNames, rec.recipeName) * (Len(SortedIngredientNames) + 1)
    + RankIn(SortedIngredientNames, rec.Ingredient)

RECURSIVE InKeyOrder(_)
InKeyOrder(S) ==
  IF S = {} THEN <<>>
  ELSE LET m == CHOOSE r \in S : \A q \in S : KeyRank(r) <= KeyRank(q)
       IN  <<m>> \o InKeyOrder(S \ {m})

\* function dbGetAll(db): the result of store.getAll() on a snapshot
dbGetAll(store) == InKeyOrder(store)

\* function dbGetItems(db, recipeName)
dbGetItems(store, recipeName) ==
  SelectSeq(dbGetAll(store), LAMBDA x : x.recipeName = recipeName)

\* ensureRowsForRecipe, lines 535-545: rows rebuilt from the records read
BuiltRowsNoCache(stored, items) ==
  LET built == [i \in 1..Len(items) |->
                  [name |-> items[i].Ingredient, cost |-> 0, amount |-> 0,
                   recipeAmount |-> n(Num(items[i].RecipeAmmount))]]
  IN  IF Len(built) > 0 THEN built ELSE defaultRows

BuiltRows(stored, items) ==
  LET cache == loadIngredientCache(stored)
      built == [i \in 1..Len(items) |->
                  LET c == IF cache[items[i].Ingredient].has
                           THEN cache[items[i].Ingredient]
                           ELSE [has |-> TRUE, cost |-> Num(0), amount |-> Num(0)]
                  IN  [name |-> items[i].Ingredient, cost |-> n(c.cost),
                       amount |-> n(c.amount),
                       recipeAmount |-> n(Num(items[i].RecipeAmmount))]]
  IN  IF Len(built) > 0 THEN built ELSE defaultRows

\* function dbListRecipes(db): the distinct non-blank recipe names of the records
dbListRecipes(all) ==
  { rn \in { all[i].recipeName : i \in 1..Len(all) } : Trim(rn) # "" }

(***************************************************************************)
(* The program state as one record, so that the statements of a handler    *)
(* compose in program order.  writes counts the Row Store setItem calls of *)
(* the slice being run.                                                    *)
(***************************************************************************)
Cur ==
  [ls |-> lsRows, cur |-> lsCurrent, cache |-> lsCache, margin |-> lsMargin,
   folders |-> lsFolders, filterFolder |-> filterFolder,
   meta |-> lsMeta,
   idb |-> idb, DB |-> DB, currentRecipe |-> currentRecipe,
   rowsState |-> rowsState, rowsLoaded |-> rowsLoaded, saveTimer |-> saveTimer,
   timers |-> timers, recipeList |-> recipeList, rowsOwner |-> rowsOwner,
   currentBy |-> currentBy,
   writes |-> 0]

Commit(s) ==
  /\ lsRows' = s.ls
  /\ lsCurrent' = s.cur
  /\ lsCache' = s.cache
  /\ lsMargin' = s.margin
  /\ lsFolders' = s.folders
  /\ filterFolder' = s.filterFolder
  /\ lsMeta' = s.meta
  /\ idb' = s.idb
  /\ DB' = s.DB
  /\ currentRecipe' = s.currentRecipe
  /\ rowsState' = s.rowsState
  /\ rowsLoaded' = s.rowsLoaded
  /\ saveTimer' = s.saveTimer
  /\ timers' = s.timers
  /\ recipeList' = s.recipeList
  /\ rowsOwner' = s.rowsOwner
  /\ currentBy' = s.currentBy

\* function getCurrentRecipe()
getCurrentRecipe(s) == IF s.cur # "" THEN s.cur ELSE "Default"

\* function loadMarginPct(): 30 when nothing is stored
loadMarginPct(stored) == IF stored.k = "nil" THEN 30 ELSE n(stored)

\* function saveMarginPct(v): String(v), which Number() reads back as v
saveMarginPct(s, v) == [s EXCEPT !.margin = Str(v)]

\* function setCurrentRecipe(name)
setCurrentRecipe(s, name) == [s EXCEPT !.cur = name]

\* function saveRowsForRecipe(recipeName, rows)
saveRowsForRecipeLost(s, recipeName, rows) == [s EXCEPT !.writes = @ + 1]

saveRowsForRecipe(s, recipeName, rows) ==
  [s EXCEPT !.ls[recipeName] = Stringify(rows), !.writes = @ + 1]

\* localStorage.removeItem(getRowsKey(name))
removeRows(s, name) == [s EXCEPT !.ls[name] = AbsentEntry]

\* function ensureMetaForRecipe(meta, recipeName), followed by saveMeta(meta)
NoMeta == [has |-> FALSE, favorite |-> FALSE, folder |-> ""]
ensureMetaForRecipe(s, recipeName) ==
  IF s.meta[recipeName].has THEN s
  ELSE [s EXCEPT !.meta[recipeName] = [has |-> TRUE, favorite |-> FALSE, folder |-> ""]]

\* the folder names used, in localeCompare order
SortedFolderNames == <<"F", "G">>

\* function loadFolders(): the stored strings that are not blank, trimmed
loadFolders(stored) ==
  LET kept == SelectSeq(stored, LAMBDA x : Trim(x) # "") IN
  [i \in 1..Len(kept) |-> Trim(kept[i])]

\* function saveFolders(folders): trimmed, blanks dropped, duplicates dropped,
\* sorted by localeCompare; the clean array is stored
saveFolders(s, folders) ==
  LET clean == { Trim(folders[i]) : i \in 1..Len(folders) } \ {""} IN
  [s EXCEPT !.folders = SelectSeq(SortedFolderNames, LAMBDA f : f \in clean)]

\* if (saveTimer) { clearTimeout(saveTimer); saveTimer = null; }
clearSaveTimer(s) ==
  IF s.saveTimer # 0
  THEN [s EXCEPT !.timers = @ \ {s.saveTimer}, !.saveTimer = 0]
  ELSE s

\* setTimeout returns an id that no pending timeout has
FreshTimer(pending) == CHOOSE id \in (1..MaxTimers) \ pending :
                         \A o \in (1..MaxTimers) \ pending : id <= o

\* function scheduleSave(): the pending timeout is cleared, a new one is set
scheduleSaveKeepOld(s) ==
  [s EXCEPT !.timers = @ \cup {FreshTimer(s.timers)},
            !.saveTimer = FreshTimer(s.timers)]

scheduleSave(s) ==
  LET pending == IF s.saveTimer # 0 THEN s.timers \ {s.saveTimer} ELSE s.timers
  IN  [s EXCEPT !.timers = pending \cup {FreshTimer(pending)},
                !.saveTimer = FreshTimer(pending)]

\* function updateIngredientCacheFromRows(rows)
RECURSIVE CacheFromRowsZeroToo(_, _, _)
CacheFromRowsZeroToo(cache, rows, i) ==
  IF i > Len(rows) THEN cache
  ELSE LET r == rows[i]
           name == Trim(r.name)
           next == IF name # ""
                   THEN [cache EXCEPT ![name] =
                           [has |-> TRUE, cost |-> Num(n(Num(r.cost))),
                            amount |-> Num(n(Num(r.amount)))]]
                   ELSE cache
       IN  CacheFromRowsZeroToo(next, rows, i + 1)

RECURSIVE CacheFromRows(_, _, _)
CacheFromRows(cache, rows, i) ==
  IF i > Len(rows) THEN cache
  ELSE LET r == rows[i]
           name == Trim(r.name)
           next == IF name # "" /\ (r.cost > 0 \/ r.amount > 0)
                   THEN [cache EXCEPT ![name] =
                           [has |-> TRUE, cost |-> Num(n(Num(r.cost))),
                            amount |-> Num(n(Num(r.amount)))]]
                   ELSE cache
       IN  CacheFromRows(next, rows, i + 1)

updateIngredientCacheFromRows(s, rows) ==
  [s EXCEPT !.cache = [st |-> "obj",
                       m |-> CacheFromRows(loadIngredientCache(s.cache), rows, 1)]]

\* function listAllRecipeNames(), after its await: the names read from the
\* Profile Store united with the Row Store keys, sorted
ListedNamesProfileOnly(s, dbNames) == dbNames

ListedNames(s, dbNames) ==
  dbNames \cup { rn \in DOMAIN s.ls : s.ls[rn].st # "absent" /\ rn # "" }

listAllRecipeNames(s, dbNames) ==
  SelectSeq(SortedRecipeNames, LAMBDA rn : rn \in ListedNames(s, dbNames))

\* function renderRecipeList(recipeNames): metadata is ensured for every listed
\* name and the list items (the click targets) are rebuilt
RECURSIVE EnsureMetaAll(_, _, _)
EnsureMetaAll(s, names, i) ==
  IF i > Len(names) THEN s
  ELSE EnsureMetaAll(ensureMetaForRecipe(s, names[i]), names, i + 1)

\* the items rendered are those that pass the folder filter (lines 403-407)
renderRecipeList(s, names) ==
  LET s1 == EnsureMetaAll(s, names, 1) IN
  [s1 EXCEPT
     !.recipeList = { names[i] : i \in { k \in 1..Len(names) :
                                           \/ s1.filterFolder = ""
                                           \/ s1.meta[names[k]].folder = s1.filterFolder } }]

\* function syncCurrentRecipeMetaUI()
syncCurrentRecipeMetaUI(s) == ensureMetaForRecipe(s, s.currentRecipe)

(***************************************************************************)
(* Async handlers.  A handler that reaches an await on an IndexedDB        *)
(* request becomes a task: kind is the handler, pc the await it is at,     *)
(* name the handler's recipe, target and ret the switchRecipe call it is   *)
(* inside (its recipeName argument and its caller), items the result of    *)
(* the request.  Transactions on one store run in the order they are       *)
(* created, so a request reads, and a readwrite transaction changes, the   *)
(* store as of the slice that creates it; its callback is a later slice.   *)
(***************************************************************************)
Task(kind, pc, name, target, ret, items) ==
  [kind |-> kind, pc |-> pc, name |-> name, target |-> target, ret |-> ret,
   items |-> items]
DoneTask == Task("none", "done", "", "", "", <<>>)
Out(s, t) == [s |-> s, t |-> t]

\* refreshRecipesUI() after its await, then syncCurrentRecipeMetaUI()
refreshEnd(s, all) ==
  syncCurrentRecipeMetaUI(
    renderRecipeList(s, listAllRecipeNames(s, dbListRecipes(all))))

\* await refreshRecipesUI(): listAllRecipeNames awaits dbListRecipes when DB is set
refreshStart(s, kind, name, ret) ==
  IF s.DB THEN Out(s, Task(kind, "refresh", name, "", ret, dbGetAll(s.idb)))
  ELSE Out(refreshEnd(s, <<>>), DoneTask)

\* function ensureRowsForRecipe(recipeName) up to its await (lines 529-533)
ensureRowsSyncProfileFirst(s, recipeName) ==
  LET fromLS == loadRowsForRecipe(s.ls, recipeName) IN
  IF s.DB THEN [wait |-> TRUE, rows |-> <<>>]
  ELSE IF fromLS.ok THEN [wait |-> FALSE, rows |-> fromLS.rows]
  ELSE [wait |-> FALSE, rows |-> defaultRows]

ensureRowsSync(s, recipeName) ==
  LET fromLS == loadRowsForRecipe(s.ls, recipeName) IN
  IF fromLS.ok THEN [wait |-> FALSE, rows |-> fromLS.rows]
  ELSE IF s.DB THEN [wait |-> TRUE, rows |-> <<>>]
  ELSE [wait |-> FALSE, rows |-> defaultRows]

\* function ensureRowsForRecipe(recipeName) after await dbGetItems (lines 534-548)
ensureRowsAsyncNoDefault(s, items) ==
  IF Len(items) > 0 THEN BuiltRows(s.cache, items) ELSE <<>>

ensureRowsAsync(s, items) ==
  IF Len(items) > 0 THEN BuiltRows(s.cache, items) ELSE defaultRows

\* function switchRecipe(recipeName, persist), lines 552-555
switchBegin(s, recipeName, persist) ==
  LET s1 == [clearSaveTimer(s) EXCEPT !.currentRecipe = recipeName,
                                      !.currentBy = "switchRecipe"]
  IN  IF persist THEN setCurrentRecipe(s1, recipeName) ELSE s1

\* function switchRecipe(recipeName, persist), lines 557-567
switchEnd(s, recipeName, rows) ==
  ensureMetaForRecipe(
    saveRowsForRecipe([s EXCEPT !.rowsState = rows, !.rowsLoaded = TRUE,
                                !.rowsOwner = recipeName],
                      recipeName, rows),
    s.currentRecipe)

\* what the caller of switchRecipe does once it has returned: the delete handler
\* on its else branch saves the rows under "Default"; every caller then refreshes
afterSwitch(s, kind, name, ret) ==
  IF ret = "deleteDefault"
  THEN refreshStart(saveRowsForRecipe(s, "Default", s.rowsState), kind, name, ret)
  ELSE refreshStart(s, kind, name, ret)

\* await switchRecipe(recipeName, true) called by handler kind
switchRecipe(s, kind, name, recipeName, ret) ==
  LET s1 == switchBegin(s, recipeName, TRUE)
      r  == ensureRowsSync(s1, recipeName)
  IN  IF r.wait
      THEN Out(s1, Task(kind, "ensure", name, recipeName, ret,
                        dbGetItems(s1.idb, recipeName)))
      ELSE afterSwitch(switchEnd(s1, recipeName, r.rows), kind, name, ret)

\* boot, lines 1237-1247: the rows are saved under currentRecipe as it is then
bootEnd(s, target, rows) ==
  ensureMetaForRecipe(
    saveRowsForRecipe([s EXCEPT !.rowsState = rows, !.rowsLoaded = TRUE,
                                !.rowsOwner = target],
                      s.currentRecipe, rows),
    s.currentRecipe)

\* boot, lines 1228-1251, from the callback of openDB on
bootOpened(s, opened) ==
  LET s1 == [s EXCEPT !.DB = opened, !.currentRecipe = getCurrentRecipe(s),
                      !.currentBy = "boot"]
      r  == ensureRowsSync(s1, s1.currentRecipe)
  IN  IF r.wait
      THEN Out(s1, Task("boot", "ensure", "", s1.currentRecipe, "boot",
                        dbGetItems(s1.idb, s1.currentRecipe)))
      ELSE refreshStart(bootEnd(s1, s1.currentRecipe, r.rows), "boot", "", "boot")

\* the continuation of await ensureRowsForRecipe in switchRecipe or in boot
ensureResolved(s, t) ==
  LET rows == ensureRowsAsync(s, t.items) IN
  IF t.ret = "boot"
  THEN refreshStart(bootEnd(s, t.target, rows), t.kind, t.name, t.ret)
  ELSE afterSwitch(switchEnd(s, t.target, rows), t.kind, t.name, t.ret)

\* dbDeleteRecipe / dbPutItems: the deletes of the readwrite transaction
deleteExisting(store, existing) ==
  { r \in store : \A i \in 1..Len(existing) : r.key # existing[i].key }

\* delete handler, lines 486-493: the switch away from the deleted recipe
deleteSwitch(s, name, all) ==
  LET remaining == listAllRecipeNames(s, dbListRecipes(all)) IN
  IF Len(remaining) > 0
  THEN switchRecipe(s, "delete", name, remaining[1], "delete")
  ELSE switchRecipe(s, "delete", name, "Default", "deleteDefault")

\* delete handler, lines 481-497, from the return of dbDeleteRecipe on
deleteAfterDb(s, name) ==
  LET s1 == [s EXCEPT !.meta[name] = NoMeta] IN
  IF s1.currentRecipe = name
  THEN IF s1.DB
       THEN Out(s1, Task("delete", "del_list", name, "", "", dbGetAll(s1.idb)))
       ELSE deleteSwitch(s1, name, <<>>)
  ELSE refreshStart(s1, "delete", name, "other")

deleteClickUnguarded(s, name) ==
  LET s1 == removeRows(clearSaveTimer(s), name) IN
  Out(s1, Task("delete", "del_read", name, "", "", dbGetItems(s1.idb, name)))

\* delete handler, lines 474-479, up to the await inside dbDeleteRecipe
deleteClick(s, name) ==
  LET s1 == removeRows(clearSaveTimer(s), name) IN
  IF s1.DB
  THEN Out(s1, Task("delete", "del_read", name, "", "", dbGetItems(s1.idb, name)))
  ELSE deleteAfterDb(s1, name)

\* function createRecipeClean(name), lines 585-604
createEnd(s, name) ==
  LET s0 == ensureMetaForRecipe(s, name)
      s1 == setCurrentRecipe(
              [s0 EXCEPT !.meta[name].folder = IF s.filterFolder # "" THEN s.filterFolder
                                               ELSE @,
                         !.currentRecipe = name,
                         !.currentBy = "createRecipeClean"],
              name)
      s2 == saveRowsForRecipe(
              [s1 EXCEPT !.rowsState = defaultRows, !.rowsLoaded = TRUE,
                         !.rowsOwner = name],
              name, defaultRows)
  IN  refreshStart(s2, "create", name, "create")

\* function createRecipeClean(name), lines 578-583
createClick(s, name) ==
  LET s1 == removeRows(clearSaveTimer(s), name) IN
  IF s1.DB
  THEN Out(s1, Task("create", "cr_read", name, "", "", dbGetItems(s1.idb, name)))
  ELSE createEnd(s1, name)

(***************************************************************************)
(* Synchronous handlers                                                    *)
(***************************************************************************)
BlankRow == [name |-> "", cost |-> 0, amount |-> 0, recipeAmount |-> 0]

\* tbody input handler, lines 1185-1188
editedRows(rows, i, k, v) ==
  CASE k = "name"         -> [rows EXCEPT ![i].name = v.s]
    [] k = "cost"         -> [rows EXCEPT ![i].cost = n(v)]
    [] k = "amount"       -> [rows EXCEPT ![i].amount = n(v)]
    [] k = "recipeAmount" -> [rows EXCEPT ![i].recipeAmount = n(v)]

\* tbody input handler, lines 1177-1195
inputHandler(s, i, k, v) ==
  LET s1 == [s EXCEPT !.rowsState = editedRows(s.rowsState, i, k, v)]
  IN  updateIngredientCacheFromRows(scheduleSave(s1), s1.rowsState)

\* addRowBtn click handler, lines 1063-1073
addRowDebouncedOnly(s) == scheduleSave([s EXCEPT !.rowsState = Append(@, BlankRow)])

addRow(s) ==
  LET s1 == [s EXCEPT !.rowsState = Append(@, BlankRow)]
  IN  scheduleSave(saveRowsForRecipe(s1, s1.currentRecipe, s1.rowsState))

\* Array.prototype.splice(idx, 1)
Splice(rows, idx) ==
  [j \in 1..(Len(rows) - 1) |-> IF j < idx THEN rows[j] ELSE rows[j + 1]]

\* tbody click (delete row) handler, lines 1197-1224
deleteRow(s, idx) ==
  LET s1 == [s EXCEPT !.rowsState = Splice(@, idx)]
  IN  IF Len(s1.rowsState) = 0
      THEN LET s2 == [s1 EXCEPT !.rowsState = defaultRows]
           IN  updateIngredientCacheFromRows(
                 scheduleSave(saveRowsForRecipe(s2, s2.currentRecipe, s2.rowsState)),
                 s2.rowsState)
      ELSE scheduleSave(saveRowsForRecipe(s1, s1.currentRecipe, s1.rowsState))

\* resetBtn click handler, lines 1076-1082
resetRows(s) ==
  LET s1 == [s EXCEPT !.rowsState = defaultRows, !.rowsLoaded = TRUE,
                      !.rowsOwner = s.currentRecipe]
  IN  updateIngredientCacheFromRows(
        scheduleSave(saveRowsForRecipe(s1, s1.currentRecipe, s1.rowsState)),
        s1.rowsState)

\* the timeout callback of scheduleSave, lines 572-574
timerCallback(s, id) ==
  saveRowsForRecipe([s EXCEPT !.timers = @ \ {id}], s.currentRecipe, s.rowsState)

(***************************************************************************)
(* Actions                                                                 *)
(***************************************************************************)
NoBurst == [n |-> 0, writes |-> 0, fired |-> FALSE, rows |-> <<>>]
NoEdit == [has |-> FALSE, rn |-> "", rows |-> <<>>]

RemoveAt(seq, i) == [j \in 1..(Len(seq) - 1) |-> IF j < i THEN seq[j] ELSE seq[j + 1]]

\* a user event starts a handler: it runs to its first await
Start(r) ==
  /\ events < MaxEvents
  /\ events' = events + 1
  /\ Commit(r.s)
  /\ r.t.pc # "done" => Len(tasks) < MaxTasks
  /\ tasks' = IF r.t.pc = "done" THEN tasks ELSE Append(tasks, r.t)
  /\ burst' = NoBurst
  /\ UNCHANGED edited

\* the callback of task i runs the handler to its next await
Resume(i, r) ==
  /\ Commit(r.s)
  /\ tasks' = IF r.t.pc = "done" THEN RemoveAt(tasks, i) ELSE [tasks EXCEPT ![i] = r.t]
  /\ burst' = NoBurst
  /\ UNCHANGED edited
  /\ UNCHANGED events

\* the request of task i fails: the handler ends in its catch block, or as an
\* unhandled rejection; neither changes the state
Reject(i) ==
  /\ tasks' = RemoveAt(tasks, i)
  /\ burst' = NoBurst
  /\ UNCHANGED edited
  /\ UNCHANGED <<lsRows, lsCurrent, lsCache, lsMargin, lsFolders, filterFolder, lsMeta, idb, DB, currentRecipe,
                 rowsState, rowsLoaded, saveTimer, timers, recipeList, rowsOwner,
                 currentBy, events>>

\* boot: await openDB() resolves (opened) or rejects
BootOpenDB ==
  \E i \in 1..Len(tasks), opened \in BOOLEAN :
    /\ tasks[i].pc = "openDB"
    /\ Resume(i, bootOpened(Cur, opened))

\* click on a recipe item, lines 511-516
\* the task remembers the current recipe, the persisted pointer and the working
\* rows as they were when switchRecipe was called
SwitchClick ==
  \E name \in recipeList :
    LET r == switchRecipe(Cur, "click", name, name, "click") IN
    Start(Out(r.s, r.t @@ [before |-> [currentRecipe |-> currentRecipe, cur |-> lsCurrent,
                                       rowsState |-> rowsState, events |-> events + 1]]))

\* click on the Delete button of the recipe item name, lines 473-503
\* the task remembers the Row Store entry and the metadata of name as they were
\* when the handler was called
DeleteClicked(name) ==
  LET r == deleteClick(Cur, name) IN
  /\ name \in recipeList
  /\ Start(Out(r.s, r.t @@ [before |-> [rows |-> lsRows[name], meta |-> lsMeta[name]]]))

DeleteClick == \E name \in RecipeNames : DeleteClicked(name)

\* createRecipeBtn click with a non-blank name, lines 1085-1091
CreateClick ==
  \E name \in RecipeNames : Start(createClick(Cur, name))

\* await dbGetItems in ensureRowsForRecipe resolves for task i
Resolved(i) ==
  /\ tasks[i].pc = "ensure"
  /\ Resume(i, ensureResolved(Cur, tasks[i]))

EnsureReadOK == \E i \in 1..Len(tasks) : Resolved(i)

\* await dbGetItems in ensureRowsForRecipe rejects (req.onerror)
EnsureReadFail ==
  \E i \in 1..Len(tasks) :
    /\ tasks[i].pc = "ensure"
    /\ Reject(i)

\* dbDeleteRecipe, lines 290-297: the records are read, the readwrite
\* transaction is created and commits or aborts
DeleteReadOK ==
  \E i \in 1..Len(tasks), commit \in BOOLEAN :
    /\ tasks[i].pc = "del_read"
    /\ Resume(i, Out([Cur EXCEPT !.idb = IF commit THEN deleteExisting(@, tasks[i].items)
                                         ELSE @],
                     [tasks[i] EXCEPT !.pc = IF commit THEN "del_tx" ELSE "del_abort"]))

DeleteReadFail ==
  \E i \in 1..Len(tasks) :
    /\ tasks[i].pc = "del_read"
    /\ Reject(i)

\* dbDeleteRecipe resolves (tx.oncomplete) and the delete handler goes on
DeleteTxOK ==
  \E i \in 1..Len(tasks) :
    /\ tasks[i].pc = "del_tx"
    /\ Resume(i, deleteAfterDb(Cur, tasks[i].name))

\* dbDeleteRecipe rejects (tx.onabort): the handler's catch block
DeleteTxFail ==
  \E i \in 1..Len(tasks) :
    /\ tasks[i].pc = "del_abort"
    /\ Reject(i)

\* await listAllRecipeNames() in the delete handler resolves for task i
Listed(i) ==
  /\ tasks[i].pc = "del_list"
  /\ Resume(i, deleteSwitch(Cur, tasks[i].name, tasks[i].items))

DeleteListOK == \E i \in 1..Len(tasks) : Listed(i)

DeleteListFail ==
  \E i \in 1..Len(tasks) :
    /\ tasks[i].pc = "del_list"
    /\ Reject(i)

\* createRecipeClean: dbDeleteRecipe reads, then its transaction commits or aborts
CreateReadOK ==
  \E i \in 1..Len(tasks), commit \in BOOLEAN :
    /\ tasks[i].pc = "cr_read"
    /\ Resume(i, Out([Cur EXCEPT !.idb = IF commit THEN deleteExisting(@, tasks[i].items)
                                         ELSE @],
                     [tasks[i] EXCEPT !.pc = IF commit THEN "cr_tx" ELSE "cr_abort"]))

\* createRecipeClean: try{ await dbDeleteRecipe }catch{} swallows the rejection
CreateReadFail ==
  \E i \in 1..Len(tasks) :
    /\ tasks[i].pc = "cr_read"
    /\ Resume(i, createEnd(Cur, tasks[i].name))

\* dbDeleteRecipe resolves (tx.oncomplete) or rejects (tx.onabort) into the
\* empty catch: createRecipeClean goes on either way
CreateTxDone ==
  \E i \in 1..Len(tasks) :
    /\ tasks[i].pc \in {"cr_tx", "cr_abort"}
    /\ Resume(i, createEnd(Cur, tasks[i].name))

\* await refreshRecipesUI() resolves for task i, then syncCurrentRecipeMetaUI():
\* the last statements of every handler
Refreshed(i) ==
  /\ tasks[i].pc = "refresh"
  /\ Resume(i, Out(refreshEnd(Cur, tasks[i].items), DoneTask))

RefreshOK == \E i \in 1..Len(tasks) : Refreshed(i)

RefreshFail ==
  \E i \in 1..Len(tasks) :
    /\ tasks[i].pc = "refresh"
    /\ Reject(i)

\* the input event of a table cell
Edit(inputs) ==
  \E i \in 1..Len(rowsState), in \in inputs :
    LET s == inputHandler(Cur, i, in.k, in.v) IN
    /\ rowsLoaded
    /\ events < MaxEvents
    /\ events' = events + 1
    /\ Commit(s)
    /\ burst' = [n |-> IF burst.fired \/ burst.n = 0 THEN 1 ELSE 2,
                 writes |-> (IF burst.fired THEN 0 ELSE burst.writes) + s.writes,
                 fired |-> FALSE, rows |-> s.rowsState]
    /\ edited' = [has |-> TRUE, rn |-> s.currentRecipe, rows |-> s.rowsState]
    /\ UNCHANGED tasks

AddRow ==
  /\ rowsLoaded
  /\ Len(rowsState) < MaxRows
  /\ Start(Out(addRow(Cur), DoneTask))

DeleteRow ==
  \E idx \in 1..Len(rowsState) :
    /\ rowsLoaded
    /\ Start(Out(deleteRow(Cur, idx), DoneTask))

Reset == Start(Out(resetRows(Cur), DoneTask))

\* a pending timeout fires
TimerFire ==
  \E id \in timers :
    LET s == timerCallback(Cur, id) IN
    /\ Commit(s)
    /\ burst' = IF burst.n > 0
                THEN [burst EXCEPT !.fired = TRUE, !.writes = @ + s.writes]
                ELSE burst
    /\ UNCHANGED edited
    /\ UNCHANGED <<tasks, events>>

(***************************************************************************)
(* Initial states: the stores as an earlier session may have left them,    *)
(* the module-level initialisers (lines 26-36) and boot at await openDB(). *)
(***************************************************************************)
ProfileRecord(rn, ing, amt) ==
  [key |-> Key(rn, ing), recipeName |-> rn, Ingredient |-> ing, RecipeAmmount |-> amt]

NoRows  == [rn \in RecipeNames |-> AbsentEntry]
NoMetas == [rn \in RecipeNames |-> NoMeta]
Row(name, cost, amount, recipeAmount) ==
  [name |-> name, cost |-> cost, amount |-> amount, recipeAmount |-> recipeAmount]
CacheWith(name, cost, amount) ==
  [st |-> "obj",
   m |-> [EmptyCache EXCEPT ![name] = [has |-> TRUE, cost |-> Num(cost), amount |-> Num(amount)]]]

InitStores ==
  { \* first run
    [ls |-> NoRows, idb |-> {}, cur |-> "", cache |-> [st |-> "absent", m |-> EmptyCache]],
    \* recipe A saved as a profile only, recipe B with full rows
    [ls |-> [NoRows EXCEPT !["B"] = Stringify(<<Row("y", 2, 1, 1)>>)],
     idb |-> {ProfileRecord("A", "x", 2)}, cur |-> "B", cache |-> CacheWith("x", 1, 1)],
    \* recipe A with full rows and a profile that differs from them
    [ls |-> [NoRows EXCEPT !["A"] = Stringify(<<Row("x", 1, 1, 1)>>)],
     idb |-> {ProfileRecord("A", "x", 2), ProfileRecord("A", "y", 1)},
     cur |-> "A", cache |-> CacheWith("x", 1, 1)] }

Init ==
  \E st \in InitStores :
    /\ lsRows = st.ls
    /\ lsCurrent = st.cur
    /\ lsCache = st.cache
    /\ lsMargin = NilRaw
    /\ lsFolders = <<>>
    /\ filterFolder = ""
    /\ lsMeta = NoMetas
    /\ idb = st.idb
    /\ DB = FALSE
    /\ currentRecipe = (IF st.cur # "" THEN st.cur ELSE "Default")
    /\ rowsState = <<>>
    /\ rowsLoaded = FALSE
    /\ saveTimer = 0
    /\ timers = {}
    /\ recipeList = {}
    /\ tasks = << Task("boot", "openDB", "", "", "", <<>>) >>
    /\ rowsOwner = ""
    /\ currentBy = "init"
    /\ burst = NoBurst
    /\ edited = NoEdit
    /\ events = 0

\* what the user types into a cell
\* the field of the cell, the text typed and the number Number() reads in it
Typed(text, value) == [k |-> "str", v |-> value, s |-> text]
EditInputs == { [k |-> "name", v |-> Typed("x", 0)], [k |-> "cost", v |-> Typed("1", 1)] }

Next ==
  \/ BootOpenDB
  \/ SwitchClick
  \/ DeleteClick
  \/ CreateClick
  \/ EnsureReadOK
  \/ EnsureReadFail
  \/ DeleteReadOK
  \/ DeleteReadFail
  \/ DeleteTxOK
  \/ DeleteTxFail
  \/ DeleteListOK
  \/ DeleteListFail
  \/ CreateReadOK
  \/ CreateReadFail
  \/ CreateTxDone
  \/ RefreshOK
  \/ RefreshFail
  \/ Edit(EditInputs)
  \/ AddRow
  \/ DeleteRow
  \/ Reset
  \/ TimerFire

Spec == Init /\ [][Next]_vars

(***************************************************************************)
(* ensureRowsForRecipe on its own: the stores are drawn from the values    *)
(* below and stay as they are; a call resolves, or waits for the Profile   *)
(* Store and then resolves or rejects.  rowsState holds the rows returned, *)
(* rowsOwner the recipe asked for, rowsLoaded whether the call returned.   *)
(***************************************************************************)
StoredChoices ==
  { AbsentEntry, MalformedEntry, [st |-> "rows", rows |-> <<>>],
    [st |-> "rows",
     rows |-> << [name |-> "x", cost |-> Str(2), amount |-> NaNRaw,
                  recipeAmount |-> Num(1)] >>],
    [st |-> "rows",
     rows |-> << [name |-> "y", cost |-> Num(1), amount |-> Num(2),
                  recipeAmount |-> NilRaw],
                 [name |-> "", cost |-> Num(0), amount |-> Num(0),
                  recipeAmount |-> Num(0)] >>] }

CacheChoices ==
  { [st |-> "absent", m |-> EmptyCache], [st |-> "malformed", m |-> EmptyCache],
    [st |-> "obj",
     m |-> [EmptyCache EXCEPT !["x"] = [has |-> TRUE, cost |-> Str(3), amount |-> Num(2)]]],
    [st |-> "obj",
     m |-> [EmptyCache EXCEPT !["x"] = [has |-> TRUE, cost |-> NaNRaw, amount |-> Num(1)],
                              !["y"] = [has |-> TRUE, cost |-> Num(1), amount |-> Num(1)]]] }

ProfileChoices ==
  SUBSET { ProfileRecord("A", "x", 2), ProfileRecord("A", "y", 1),
           ProfileRecord("B", "x", 1) }

InitEnsure ==
  /\ lsRows \in [RecipeNames -> StoredChoices]
  /\ lsRows["Default"] \in { AbsentEntry, MalformedEntry }
  /\ lsCache \in CacheChoices
  /\ lsMargin = NilRaw
  /\ lsFolders = <<>>
  /\ filterFolder = ""
  /\ idb \in ProfileChoices
  /\ DB \in BOOLEAN
  /\ lsCurrent = ""
  /\ lsMeta = NoMetas
  /\ currentRecipe = "Default"
  /\ rowsState = <<>>
  /\ rowsLoaded = FALSE
  /\ saveTimer = 0
  /\ timers = {}
  /\ recipeList = {}
  /\ tasks = <<>>
  /\ rowsOwner = ""
  /\ currentBy = "init"
  /\ burst = NoBurst
  /\ edited = NoEdit
  /\ events = 0

\* rows = await ensureRowsForRecipe(name), up to its await
EnsureCall ==
  \E name \in RecipeNames :
    LET r == ensureRowsSync(Cur, name) IN
    /\ tasks = <<>>
    /\ rowsOwner' = name
    /\ rowsLoaded' = ~r.wait
    /\ rowsState' = r.rows
    /\ tasks' = IF r.wait
                THEN << Task("ensure", "ensure", name, name, "call",
                             dbGetItems(idb, name)) >>
                ELSE <<>>
    /\ UNCHANGED <<lsRows, lsCurrent, lsCache, lsMargin, lsFolders, filterFolder, lsMeta, idb, DB, currentRecipe,
                   saveTimer, timers, recipeList, currentBy, burst, edited, events>>

\* await dbGetItems resolves and ensureRowsForRecipe returns
EnsureReturn ==
  /\ tasks # <<>>
  /\ rowsState' = ensureRowsAsync(Cur, tasks[1].items)
  /\ rowsLoaded' = TRUE
  /\ tasks' = <<>>
  /\ UNCHANGED <<lsRows, lsCurrent, lsCache, lsMargin, lsFolders, filterFolder, lsMeta, idb, DB, currentRecipe,
                 saveTimer, timers, recipeList, rowsOwner, currentBy, burst, edited,
                 events>>

\* await dbGetItems rejects (dbGetAll: req.onerror) and so does ensureRowsForRecipe
EnsureThrow ==
  /\ tasks # <<>>
  /\ tasks' = <<>>
  /\ UNCHANGED <<lsRows, lsCurrent, lsCache, lsMargin, lsFolders, filterFolder, lsMeta, idb, DB, currentRecipe,
                 rowsState, rowsLoaded, saveTimer, timers, recipeList, rowsOwner,
                 currentBy, burst, edited, events>>

NextEnsure == EnsureCall \/ EnsureReturn \/ EnsureThrow

SpecEnsure == InitEnsure /\ [][NextEnsure]_vars

(***************************************************************************)
(* Claims about ensureRowsForRecipe (SpecEnsure)                           *)
(***************************************************************************)
\* the call for rowsOwner is over and returned rowsState
Returned == tasks = <<>> /\ rowsOwner # "" /\ rowsLoaded
ProfileOf(name) == { r \in idb : r.recipeName = name }
CachedCost(ing) ==
  IF lsCache.st = "obj" /\ lsCache.m[ing].has THEN n(lsCache.m[ing].cost) ELSE 0
CachedAmount(ing) ==
  IF lsCache.st = "obj" /\ lsCache.m[ing].has THEN n(lsCache.m[ing].amount) ELSE 0

\* C1: when the Row Store entry of a recipe is a well-formed row sequence,
\* ensureRows returns exactly that sequence with its numeric fields coerced,
\* whatever the Profile Store and the Ingredient Cache hold.
C1_RowStoreWins ==
  (Returned /\ lsRows[rowsOwner].st = "rows") =>
    LET stored == lsRows[rowsOwner].rows IN
    /\ Len(rowsState) = Len(stored)
    /\ \A i \in 1..Len(stored) :
         rowsState[i] = [name |-> stored[i].name, cost |-> n(stored[i].cost),
                         amount |-> n(stored[i].amount),
                         recipeAmount |-> n(stored[i].recipeAmount)]

\* both stores hold data for recipe A, the Row Store's rows need coercion
C1_Witness ==
  /\ Returned /\ rowsOwner = "A" /\ DB
  /\ lsRows["A"].st = "rows" /\ Len(lsRows["A"].rows) = 1
  /\ Cardinality(ProfileOf("A")) = 2

\* C2: with no Row Store rows and at least one ProfileRecord, ensureRows returns
\* one row per record: its ingredient name, its recipeAmount, and the cost and
\* amount of the Ingredient Cache entry of that name, 0/0 without an entry.
C2_RebuiltFromProfile ==
  (Returned /\ lsRows[rowsOwner].st # "rows" /\ DB /\ ProfileOf(rowsOwner) # {}) =>
    /\ Len(rowsState) = Cardinality(ProfileOf(rowsOwner))
    /\ \A r \in ProfileOf(rowsOwner) :
         \E i \in 1..Len(rowsState) :
           rowsState[i] = [name |-> r.Ingredient, cost |-> CachedCost(r.Ingredient),
                           amount |-> CachedAmount(r.Ingredient),
                           recipeAmount |-> r.RecipeAmmount]

\* two records, one ingredient cached with a cost that is a text, one not cached
C2_Witness ==
  /\ Returned /\ rowsOwner = "A" /\ DB /\ lsRows["A"].st = "absent"
  /\ Cardinality(ProfileOf("A")) = 2
  /\ lsCache.st = "obj" /\ lsCache.m["x"].cost = Str(3) /\ ~lsCache.m["y"].has

\* C3: with no Row Store rows, and no ProfileRecord or no Profile Store,
\* ensureRows returns exactly one blank row.
C3_BlankFallback ==
  (Returned /\ lsRows[rowsOwner].st # "rows" /\ (~DB \/ ProfileOf(rowsOwner) = {})) =>
    rowsState = << [name |-> "", cost |-> 0, amount |-> 0, recipeAmount |-> 0] >>

\* the Profile Store is open, holds records of other recipes and none of B
C3_Witness ==
  /\ Returned /\ rowsOwner = "B" /\ DB /\ lsRows["B"].st = "absent"
  /\ ProfileOf("B") = {} /\ ProfileOf("A") # {}

\* C4: ensureRows never fails: every call returns a row sequence, also when the
\* read of the Profile Store fails.
C4_NeverFails == (tasks = <<>> /\ rowsOwner # "") => rowsLoaded

(***************************************************************************)
(* Claims about the debounced save and the recipe lifecycle (Spec)         *)
(***************************************************************************)
\* C5: a run of consecutive edits, with no timer firing and no other handler
\* in between, writes nothing to the Row Store while it lasts and leaves one
\* pending timeout; when that timeout fires, the run has produced exactly one
\* Row Store write, no timeout is left, and the entry written is the working
\* rows as of the last edit.
C5_OneWriteAfterLastEdit ==
  burst.n > 0 =>
    IF ~burst.fired
    THEN burst.writes = 0 /\ timers = {saveTimer}
    ELSE /\ burst.writes = 1
         /\ timers = {}
         /\ lsRows[currentRecipe] = Stringify(burst.rows)

\* two or more edits in a row, then the timeout has fired
C5_Witness == burst.n = 2 /\ burst.fired /\ burst.rows # defaultRows

\* C6: once switchRecipe has assigned the new current recipe, a debounced save
\* that fires writes rows that were resolved or created for that recipe, never
\* the previous recipe's working rows.
C6_NoSaveUnderNewName ==
  [][(TimerFire /\ currentBy = "switchRecipe") => rowsOwner = currentRecipe]_vars

\* C7: when the last of overlapping switchRecipe calls returns, the working
\* rows are the rows resolved for the recipe that currentRecipe designates.
C7_LaterSwitchWins ==
  [][\A i \in 1..Len(tasks) :
       ( /\ Resolved(i)
         /\ tasks[i].ret # "boot"
         /\ currentBy = "switchRecipe"
         /\ \A j \in 1..Len(tasks) : j # i => tasks[j].pc # "ensure" )
       => rowsOwner' = currentRecipe']_vars

\* listAllRecipeNames() on the stores as they are
Existing ==
  LET names == listAllRecipeNames(Cur, IF DB THEN dbListRecipes(dbGetAll(idb)) ELSE {})
  IN  { names[k] : k \in 1..Len(names) }

\* the branch the delete handler takes when it runs without a Profile Store
SyncBranch(name) ==
  IF currentRecipe # name THEN "other"
  ELSE IF \E rn \in RecipeNames \ {name} : lsRows[rn].st # "absent" THEN "delete"
  ELSE "deleteDefault"

\* the step in which the delete handler of recipe name returns, having taken
\* branch ret: "other" (name was not current), "delete" (switch to a remaining
\* recipe) or "deleteDefault" (switch to "Default")
DeleteEnds(name, ret) ==
  \/ \E i \in 1..Len(tasks) :
       /\ tasks[i].kind = "delete" /\ tasks[i].name = name /\ tasks[i].ret = ret
       /\ Refreshed(i)
  \/ ~DB /\ SyncBranch(name) = ret /\ DeleteClicked(name)

\* the step in which the switchRecipe call of the delete handler of recipe name
\* returns to the handler
DeleteSwitched(name, ret) ==
  \/ \E i \in 1..Len(tasks) :
       /\ tasks[i].kind = "delete" /\ tasks[i].name = name
       /\ Resolved(i) \/ (Listed(i) /\ tasks'[i].pc = "refresh")
       /\ tasks'[i].ret = ret
  \/ ~DB /\ SyncBranch(name) = ret /\ DeleteClicked(name)

\* C8: when the delete handler of a recipe other than "Default" returns, the
\* recipe is not in listAllRecipeNames().
C8_DeletedIsAbsent ==
  [][\A name \in RecipeNames \ {"Default"}, ret \in {"other", "delete", "deleteDefault"} :
       DeleteEnds(name, ret) => name \notin Existing']_vars

C10_DeleteSwitchesCurrent ==
  [][\A name \in RecipeNames, ret \in {"delete", "deleteDefault"} :
       DeleteSwitched(name, ret)
         => /\ currentRecipe' \in Existing'
            /\ lsCurrent' = currentRecipe'
            /\ rowsOwner' = currentRecipe'
            /\ lsRows'[currentRecipe'] = Stringify(rowsState')]_vars

(***************************************************************************)
(* dbPutItems and dbDeleteRecipe on their own.  A call reads the records   *)
(* of the recipe (readonly transaction), and in the slice in which that    *)
(* read resolves it creates one readwrite transaction and issues all its   *)
(* delete and put requests; the transaction then commits or aborts.  Calls *)
(* may overlap.  tasks keeps the finished calls too: seen is the store at  *)
(* the call, base the store the transaction was applied to, after the      *)
(* store it left.                                                          *)
(***************************************************************************)
MaxCalls == 2   \* calls of dbPutItems / dbDeleteRecipe in one behaviour

\* one store.put: a record with the same key is replaced
putRecord(store, rec) == { r \in store : r.key # rec.key } \cup {rec}

\* dbPutItems, lines 273-280: the puts, in row order
RECURSIVE putRowsNoSkip(_, _, _, _)
putRowsNoSkip(store, recipeName, rows, i) ==
  IF i > Len(rows) THEN store
  ELSE putRowsNoSkip(
         putRecord(store, ProfileRecord(recipeName, Trim(rows[i].name),
                                        n(Num(rows[i].recipeAmount)))),
         recipeName, rows, i + 1)

RECURSIVE putRowsFirstWins(_, _, _, _)
putRowsFirstWins(store, recipeName, rows, i) ==
  IF i > Len(rows) THEN store
  ELSE LET Ingredient == Trim(rows[i].name)
           rec == ProfileRecord(recipeName, Ingredient, n(Num(rows[i].recipeAmount)))
       IN  putRowsFirstWins(
             IF Ingredient = "" \/ (\E j \in 1..(i - 1) : Trim(rows[j].name) = Ingredient)
             THEN store ELSE putRecord(store, rec),
             recipeName, rows, i + 1)

RECURSIVE putRows(_, _, _, _)
putRows(store, recipeName, rows, i) ==
  IF i > Len(rows) THEN store
  ELSE LET Ingredient == Trim(rows[i].name)
           rec == ProfileRecord(recipeName, Ingredient, n(Num(rows[i].recipeAmount)))
       IN  putRows(IF Ingredient = "" THEN store ELSE putRecord(store, rec),
                   recipeName, rows, i + 1)

\* dbPutItems, lines 266-280: the requests of the readwrite transaction
dbPutWritePutsFirst(store, recipeName, existing, rows) ==
  deleteExisting(putRows(store, recipeName, rows, 1), existing)

dbPutWrite(store, recipeName, existing, rows) ==
  putRows(deleteExisting(store, existing), recipeName, rows, 1)

\* lines 282-286 / 299-303: tx.oncomplete keeps the writes, tx.onabort none
txOutcomeNoRollback(before, written, commit) == written

txOutcome(before, written, commit) == IF commit THEN written ELSE before

PutRow(name, recipeAmount) ==
  [name |-> name, cost |-> 1, amount |-> 1, recipeAmount |-> recipeAmount]
PutRowChoices ==
  { <<>>, <<PutRow("x", 1)>>, <<PutRow(" ", 1)>>,
    <<PutRow("x", 1), PutRow(" x", 2)>>, <<PutRow("y", 2), PutRow("", 1)>>,
    <<PutRow(" x", 3), PutRow("y", 1)>> }

\* tx: the readwrite transaction of the call is open while the call is at pc
Call(kind, pc, tx, name, rows, items, seen, base, after) ==
  [kind |-> kind, pc |-> pc, tx |-> tx, name |-> name, rows |-> rows,
   items |-> items, seen |-> seen, base |-> base, after |-> after]

PutFrame ==
  UNCHANGED <<lsRows, lsCurrent, lsCache, lsMargin, lsFolders, filterFolder, lsMeta, DB, currentRecipe, rowsState,
              rowsLoaded, saveTimer, timers, recipeList, rowsOwner, currentBy, burst, edited>>

InitPut ==
  /\ idb \in ProfileChoices
  /\ DB = TRUE
  /\ tasks = <<>>
  /\ events = 0
  /\ lsRows = NoRows
  /\ lsCurrent = ""
  /\ lsCache = [st |-> "absent", m |-> EmptyCache]
  /\ lsMargin = NilRaw
  /\ lsFolders = <<>>
  /\ filterFolder = ""
  /\ lsMeta = NoMetas
  /\ currentRecipe = "Default"
  /\ rowsState = <<>>
  /\ rowsLoaded = FALSE
  /\ saveTimer = 0
  /\ timers = {}
  /\ recipeList = {}
  /\ rowsOwner = ""
  /\ currentBy = "init"
  /\ burst = NoBurst
  /\ edited = NoEdit

InFlight == { i \in 1..Len(tasks) : tasks[i].pc \notin {"done", "failed", "stuck"} }

\* dbPutItems(DB, name, rows) / dbDeleteRecipe(DB, name) up to await dbGetItems
CallStart(kind, name, rows) ==
  /\ events < MaxCalls
  /\ Cardinality(InFlight) < MaxTasks
  /\ events' = events + 1
  /\ tasks' = Append(tasks, Call(kind, "read", FALSE, name, rows,
                                 dbGetItems(idb, name), idb, {}, {}))
  /\ UNCHANGED idb
  /\ PutFrame

PutCall == \E name \in {"A", "B"}, rows \in PutRowChoices : CallStart("put", name, rows)

DelCall == \E name \in {"A", "B"} : CallStart("del", name, <<>>)

\* the requests task i issues when its read has resolved
Written(i) ==
  IF tasks[i].kind = "put"
  THEN dbPutWrite(idb, tasks[i].name, tasks[i].items, tasks[i].rows)
  ELSE deleteExisting(idb, tasks[i].items)

\* await dbGetItems resolves: the readwrite transaction of call i
Wrote(i, commit) ==
  /\ tasks[i].pc = "read"
  /\ idb' = txOutcome(idb, Written(i), commit)
  /\ tasks[i].kind \in {"put", "del"}
  /\ tasks' = [tasks EXCEPT ![i].pc = IF commit THEN "tx" ELSE "abort",
                            ![i].tx = TRUE, ![i].base = idb, ![i].after = idb']
  /\ UNCHANGED events
  /\ PutFrame

CallWrite == \E i \in 1..Len(tasks), commit \in BOOLEAN : Wrote(i, commit)

\* await dbGetItems rejects, or tx.onabort: the call rejects
CallReject ==
  \E i \in 1..Len(tasks) :
    /\ tasks[i].pc \in {"read", "abort"}
    /\ tasks' = [tasks EXCEPT ![i].pc = "failed", ![i].tx = FALSE]
    /\ UNCHANGED <<idb, events>>
    /\ PutFrame

\* tx.oncomplete: the call resolves
CallResolve ==
  \E i \in 1..Len(tasks) :
    /\ tasks[i].pc = "tx"
    /\ tasks' = [tasks EXCEPT ![i].pc = "done", ![i].tx = FALSE]
    /\ UNCHANGED <<idb, events>>
    /\ PutFrame

\* dbPutItems / dbDeleteRecipe of src/unnamed/part_000: the readwrite
\* transaction is opened first and the call then awaits dbGetItems with it open
OldCall ==
  \E kind \in {"oldput", "olddel"}, name \in {"A", "B"}, rows \in PutRowChoices :
    /\ kind = "olddel" => rows = <<>>
    /\ events < MaxCalls
    /\ Cardinality(InFlight) < MaxTasks
    /\ events' = events + 1
    /\ tasks' = Append(tasks, Call(kind, "read", TRUE, name, rows,
                                   dbGetItems(idb, name), idb, {}, {}))
    /\ UNCHANGED idb
    /\ PutFrame

\* the read resolves once the transaction, left without a request, has finished:
\* the first store.delete or store.put throws and the call rejects; with nothing
\* to delete or put the call waits for a tx.oncomplete that has already fired
OldResume ==
  \E i \in 1..Len(tasks) :
    /\ tasks[i].kind \in {"oldput", "olddel"}
    /\ tasks[i].pc = "read"
    /\ tasks' = [tasks EXCEPT
                   ![i].pc = IF Len(tasks[i].items) > 0
                                \/ \E k \in 1..Len(tasks[i].rows) :
                                     Trim(tasks[i].rows[k].name) # ""
                             THEN "failed" ELSE "stuck",
                   ![i].tx = FALSE, ![i].base = idb, ![i].after = idb]
    /\ UNCHANGED <<idb, events>>
    /\ PutFrame

NextPut ==
  \/ PutCall
  \/ DelCall
  \/ CallWrite
  \/ CallReject
  \/ CallResolve
  \/ OldCall
  \/ OldResume

SpecPut == InitPut /\ [][NextPut]_vars

(***************************************************************************)
(* Claims about the Profile Store operations (SpecPut)                     *)
(***************************************************************************)
\* the records the rows of a call stand for: one per distinct non-empty trimmed
\* name, with the recipeAmount of the last row of that name
Projection(name, rows) ==
  { ProfileRecord(name, Trim(rows[i].name), rows[i].recipeAmount) :
      i \in { k \in 1..Len(rows) :
                /\ Trim(rows[k].name) # ""
                /\ \A j \in (k + 1)..Len(rows) : Trim(rows[j].name) # Trim(rows[k].name) } }

\* C11: when the transaction of dbPutItems(name, rows) commits, the records of
\* name are exactly the projection of rows.
C11_ReplaceIsProjection ==
  [][\A i \in 1..Len(tasks) :
       (tasks[i].kind = "put" /\ Wrote(i, TRUE))
         => ProfileOf(tasks[i].name)' = Projection(tasks[i].name, tasks[i].rows)]_vars

\* call j of dbPutItems repeats call i right after it: same recipe, same rows,
\* called on the store call i left, with no other write in between
Repeats(i, j) ==
  /\ i < j
  /\ tasks[i].kind = "put" /\ tasks[i].pc = "done"
  /\ tasks[j].kind = "put" /\ tasks[j].pc = "done"
  /\ tasks[j].name = tasks[i].name /\ tasks[j].rows = tasks[i].rows
  /\ tasks[i].base = tasks[i].seen
  /\ tasks[j].seen = tasks[i].after
  /\ tasks[j].base = tasks[j].seen

\* C12: dbPutItems called a second time in a row with the same recipe and rows
\* leaves the Profile Store as the first call left it.
C12_PutIdempotent ==
  \A i, j \in 1..Len(tasks) : Repeats(i, j) => tasks[j].after = tasks[i].after

\* a repeated call whose first call changed the store and whose rows name one
\* ingredient twice
C12_Witness ==
  \E i, j \in 1..Len(tasks) :
    /\ Repeats(i, j)
    /\ tasks[i].after # tasks[i].seen
    /\ ProfileOf(tasks[i].name) # {}
    /\ Len(tasks[i].rows) = 2
    /\ Trim(tasks[i].rows[1].name) = Trim(tasks[i].rows[2].name)

\* C13: the Profile Store changes only by the whole write unit of one call (all
\* its deletes and all its puts in one step), and a write unit that aborts
\* leaves the store as it was.
C13_WriteUnitAtomic ==
  [][/\ idb' # idb =>
          \E i \in 1..Len(tasks) :
            tasks[i].pc = "read" /\ tasks'[i].pc = "tx" /\ idb' = Written(i)
     /\ \A i \in 1..Len(tasks) :
          (tasks[i].pc = "read" /\ tasks'[i].pc = "abort") => idb' = idb]_vars

\* a dbPutItems call that had records to delete and records to put has aborted
C13_Witness ==
  \E i \in 1..Len(tasks) :
    /\ tasks[i].kind = "put" /\ tasks[i].pc = "abort"
    /\ Len(tasks[i].items) > 0
    /\ Projection(tasks[i].name, tasks[i].rows) # {}
    /\ idb = tasks[i].base

\* C14: no call of dbPutItems or dbDeleteRecipe is suspended at the read of the
\* existing records with its readwrite transaction already open.
C14_ReadBeforeTransaction ==
  \A i \in 1..Len(tasks) : tasks[i].pc = "read" => ~tasks[i].tx

\* C15: every record of the Profile Store has an Ingredient that is not empty
\* after trimming.
C15_NoBlankIngredient == \A r \in idb : Trim(r.Ingredient) # ""

\* a call whose rows hold a blank name next to a named row has committed
C15_Witness ==
  \E i \in 1..Len(tasks) :
    /\ tasks[i].kind = "put" /\ tasks[i].pc = "done" /\ idb = tasks[i].after
    /\ \E k \in 1..Len(tasks[i].rows) : Trim(tasks[i].rows[k].name) = ""
    /\ Projection(tasks[i].name, tasks[i].rows) # {}

\* C16: the Profile Store holds at most one record per (recipeName, Ingredient),
\* and the store a dbPutItems call leaves holds, for every trimmed name of its
\* rows, the recipeAmount of the last row of that name.
C16_OneRecordLastWins ==
  /\ \A r1, r2 \in idb :
       (r1.recipeName = r2.recipeName /\ r1.Ingredient = r2.Ingredient) => r1 = r2
  /\ \A i \in 1..Len(tasks) :
       (tasks[i].kind = "put" /\ tasks[i].pc \in {"tx", "done"}) =>
         \A k \in 1..Len(tasks[i].rows) :
           ( /\ Trim(tasks[i].rows[k].name) # ""
             /\ \A j \in (k + 1)..Len(tasks[i].rows) :
                  Trim(tasks[i].rows[j].name) # Trim(tasks[i].rows[k].name) )
           => \E r \in tasks[i].after :
                /\ r.recipeName = tasks[i].name
                /\ r.Ingredient = Trim(tasks[i].rows[k].name)
                /\ r.RecipeAmmount = tasks[i].rows[k].recipeAmount
                /\ \A o \in tasks[i].after :
                     (o.recipeName = r.recipeName /\ o.Ingredient = r.Ingredient) => o = r

\* two rows whose names are equal after trimming, with different amounts, saved
\* over an older record of that ingredient
C16_Witness ==
  \E i \in 1..Len(tasks) :
    /\ tasks[i].kind = "put" /\ tasks[i].pc = "done" /\ idb = tasks[i].after
    /\ Len(tasks[i].rows) = 2
    /\ tasks[i].rows[1].name # tasks[i].rows[2].name
    /\ Trim(tasks[i].rows[1].name) = Trim(tasks[i].rows[2].name)
    /\ tasks[i].rows[1].recipeAmount # tasks[i].rows[2].recipeAmount
    /\ Len(tasks[i].items) > 0


(***************************************************************************)
(* listAllRecipeNames() alone, over stores of every shape                  *)
(***************************************************************************)
\* the names a Row Store key or a record may carry: an imported document may
\* name a recipe "" or " "
ListNames == {"", " ", "A", "B", "Default"}

ListStoredChoices ==
  { AbsentEntry, MalformedEntry,
    [st |-> "rows",
     rows |-> << [name |-> "x", cost |-> Num(1), amount |-> Num(1),
                  recipeAmount |-> Num(1)] >>] }

ListProfileChoices ==
  SUBSET { ProfileRecord("", "x", 1), ProfileRecord(" ", "x", 1),
           ProfileRecord("A", "x", 2), ProfileRecord("A", "y", 1),
           ProfileRecord("B", "y", 1) }

\* a call of listAllRecipeNames(): the records its request read, the names it
\* returned
Listing(pc, items, names) == [kind |-> "list", pc |-> pc, items |-> items, names |-> names]

ListFrame ==
  UNCHANGED <<lsRows, lsCurrent, lsCache, lsMargin, lsFolders, filterFolder, lsMeta, idb, DB, currentRecipe,
              rowsState, rowsLoaded, saveTimer, timers, recipeList, rowsOwner,
              currentBy, burst, edited, events>>

InitList ==
  /\ lsRows \in [ListNames -> ListStoredChoices]
  /\ idb \in ListProfileChoices
  /\ DB \in BOOLEAN
  /\ lsCache = [st |-> "absent", m |-> EmptyCache]
  /\ lsMargin = NilRaw
  /\ lsFolders = <<>>
  /\ filterFolder = ""
  /\ lsCurrent = ""
  /\ lsMeta = NoMetas
  /\ currentRecipe = "Default"
  /\ rowsState = <<>>
  /\ rowsLoaded = FALSE
  /\ saveTimer = 0
  /\ timers = {}
  /\ recipeList = {}
  /\ tasks = <<>>
  /\ rowsOwner = ""
  /\ currentBy = "init"
  /\ burst = NoBurst
  /\ edited = NoEdit
  /\ events = 0

\* listAllRecipeNames() up to await dbListRecipes(DB); without DB it returns at once
ListCall ==
  /\ \A i \in 1..Len(tasks) : tasks[i].pc # "read"
  /\ tasks' = IF DB THEN << Listing("read", dbGetAll(idb), <<>>) >>
              ELSE << Listing("listed", <<>>, listAllRecipeNames(Cur, {})) >>
  /\ ListFrame

\* await dbListRecipes(DB) resolves and listAllRecipeNames returns
ListReturn ==
  /\ tasks # <<>> /\ tasks[1].pc = "read"
  /\ tasks' = << Listing("listed", tasks[1].items,
                         listAllRecipeNames(Cur, dbListRecipes(tasks[1].items))) >>
  /\ ListFrame

\* await dbListRecipes(DB) rejects (dbGetAll: req.onerror) and so does
\* listAllRecipeNames
ListThrow ==
  /\ tasks # <<>> /\ tasks[1].pc = "read"
  /\ tasks' = << Listing("failed", tasks[1].items, <<>>) >>
  /\ ListFrame

NextList == ListCall \/ ListReturn \/ ListThrow

SpecList == InitList /\ [][NextList]_vars

(***************************************************************************)
(* Claims on listAllRecipeNames (specification SpecList)                   *)
(***************************************************************************)
Elements(seq) == { seq[i] : i \in 1..Len(seq) }

\* sorted by localeCompare, no name twice
Ascending(seq) ==
  \A i \in 1..Len(seq), j \in 1..Len(seq) :
    i < j => RankIn(SortedRecipeNames, seq[i]) < RankIn(SortedRecipeNames, seq[j])

RowStoreNames == { rn \in DOMAIN lsRows : lsRows[rn].st # "absent" /\ rn # "" }

\* C17 as stated: listAllRecipeNames() returns, sorted and without duplicates,
\* the recipe names of all the Profile Store records united with the non-empty
\* suffixes of the Row Store keys (the Row Store names alone without DB)
C17_EveryRecordNameListed ==
  \A i \in 1..Len(tasks) :
    tasks[i].pc = "listed" =>
      /\ Ascending(tasks[i].names)
      /\ Elements(tasks[i].names) =
           (IF DB THEN { r.recipeName : r \in idb } ELSE {}) \cup RowStoreNames

\* C17 amended: listAllRecipeNames() returns, sorted and without duplicates, the
\* recipe names of the Profile Store records that are not blank after trimming
\* united with the non-empty suffixes of the Row Store keys; without DB it
\* returns the Row Store names alone
C17_NonBlankRecordNamesListed ==
  \A i \in 1..Len(tasks) :
    tasks[i].pc = "listed" =>
      /\ Ascending(tasks[i].names)
      /\ Elements(tasks[i].names) =
           (IF DB THEN { rn \in { r.recipeName : r \in idb } : Trim(rn) # "" }
            ELSE {}) \cup RowStoreNames

\* a listing that unites names of both stores, one of them in both, while a
\* record under a blank recipe name is in the Profile Store
C17_Witness ==
  /\ DB
  /\ tasks # <<>> /\ tasks[1].pc = "listed"
  /\ \E r \in idb : Trim(r.recipeName) = ""
  /\ \E r \in idb : r.recipeName \in RowStoreNames
  /\ \E r \in idb : Trim(r.recipeName) # "" /\ r.recipeName \notin RowStoreNames
  /\ \E rn \in RowStoreNames : \A r \in idb : r.recipeName # rn


(***************************************************************************)
(* The handlers that call updateIngredientCacheFromRows: the table input,  *)
(* reset, the deletion of the last row and the save button.  dbPutItems    *)
(* receives the rowsState array itself: until rowsState is assigned a new  *)
(* array (live), the put loop after the await sees the edits made since.   *)
(***************************************************************************)
CacheRowChoices ==
  { defaultRows,
    << Row("x", 2, 0, 1) >>,
    << Row(" x", 0, 3, 1), Row("y", 0, 0, 2) >>,
    << Row("y", 0, 0, 1), Row("x", 0 - 1, 0, 1) >>,
    << Row("x", 1, 1, 1), Row(" x", 2, 2, 1) >> }

CacheInputs ==
  { [k |-> "name", v |-> Typed(" x", 0)], [k |-> "name", v |-> Typed("y", 0)],
    [k |-> "cost", v |-> Typed("2", 2)],  [k |-> "cost", v |-> Typed("", 0)],
    [k |-> "recipeAmount", v |-> Typed("-1", 0 - 1)],
    [k |-> "amount", v |-> Typed("0", 0)] }

InitCache ==
  /\ rowsState \in CacheRowChoices
  /\ lsCache \in CacheChoices
  /\ lsMargin = NilRaw
  /\ lsFolders = <<>>
  /\ filterFolder = ""
  /\ idb \in { {}, {ProfileRecord("A", "x", 2)} }
  /\ DB \in BOOLEAN
  /\ lsRows = NoRows
  /\ lsCurrent = "A"
  /\ lsMeta = NoMetas
  /\ currentRecipe = "A"
  /\ rowsLoaded = TRUE
  /\ saveTimer = 0
  /\ timers = {}
  /\ recipeList = {}
  /\ tasks = <<>>
  /\ rowsOwner = "A"
  /\ currentBy = "init"
  /\ burst = NoBurst
  /\ edited = NoEdit
  /\ events = 0

\* rowsState = defaultRows() leaves the array a pending dbPutItems holds as it was
Detach(ts, frozen) ==
  [i \in DOMAIN ts |->
     IF ts[i].pc = "sv_read" /\ ts[i].live
     THEN [ts[i] EXCEPT !.live = FALSE, !.rows = frozen]
     ELSE ts[i]]

\* resetBtn click
CacheReset ==
  /\ events < MaxEvents
  /\ events' = events + 1
  /\ Commit(resetRows(Cur))
  /\ tasks' = Detach(tasks, rowsState)
  /\ burst' = NoBurst
  /\ UNCHANGED edited

\* tbody click (delete row): splice empties the array before the last row's
\* deletion assigns defaultRows()
CacheDeleteRow ==
  \E idx \in 1..Len(rowsState) :
    /\ events < MaxEvents
    /\ events' = events + 1
    /\ Commit(deleteRow(Cur, idx))
    /\ tasks' = IF Len(rowsState) = 1 THEN Detach(tasks, <<>>) ELSE tasks
    /\ burst' = NoBurst
    /\ UNCHANGED edited

\* saveRecipeBtn click handler up to await dbGetItems in dbPutItems, lines 1093-1101
saveClick(s) ==
  IF ~s.DB THEN Out(s, DoneTask)
  ELSE Out(updateIngredientCacheFromRows(s, s.rowsState),
           Task("save", "sv_read", s.currentRecipe, "", "",
                dbGetItems(s.idb, s.currentRecipe))
             @@ [rows |-> <<>>, live |-> TRUE])

SaveClick == Start(saveClick(Cur))

\* dbPutItems after its await: the readwrite transaction, committed or aborted
SaveWrite ==
  \E i \in 1..Len(tasks), commit \in BOOLEAN :
    LET rows == IF tasks[i].live THEN rowsState ELSE tasks[i].rows IN
    /\ tasks[i].pc = "sv_read"
    /\ Resume(i, Out([Cur EXCEPT !.idb = txOutcome(@, dbPutWrite(@, tasks[i].name,
                                                      tasks[i].items, rows), commit)],
                     [tasks[i] EXCEPT !.pc = IF commit THEN "sv_tx" ELSE "sv_abort"]))

\* tx.oncomplete: await refreshRecipesUI()
SaveTxDone ==
  \E i \in 1..Len(tasks) :
    /\ tasks[i].pc = "sv_tx"
    /\ Resume(i, refreshStart(Cur, "save", tasks[i].name, ""))

\* dbGetItems rejects, or tx.onerror / tx.onabort: the catch block alerts
SaveFail ==
  \E i \in 1..Len(tasks) :
    /\ tasks[i].pc \in {"sv_read", "sv_abort"}
    /\ Reject(i)

NextCache ==
  \/ Edit(CacheInputs)
  \/ CacheReset
  \/ CacheDeleteRow
  \/ SaveClick
  \/ SaveWrite
  \/ SaveTxDone
  \/ SaveFail
  \/ RefreshOK
  \/ RefreshFail
  \/ TimerFire

SpecCache == InitCache /\ [][NextCache]_vars

(***************************************************************************)
(* Claims on the Ingredient Cache (specification SpecCache)                *)
(***************************************************************************)
CacheEntry(stored, name) == loadIngredientCache(stored)[name]

Priced(r) == r.cost > 0 \/ r.amount > 0

EntryOf(r) == [has |-> TRUE, cost |-> Num(r.cost), amount |-> Num(r.amount)]

\* a step whose handler calls updateIngredientCacheFromRows(rowsState)
CacheUpdating ==
  \/ Edit(CacheInputs)
  \/ CacheReset
  \/ CacheDeleteRow /\ Len(rowsState) = 1
  \/ SaveClick /\ DB

\* C18: an edit, reset, row deletion or explicit save changes the Ingredient
\* Cache entry of a name only when a working row with that trimmed non-empty
\* name has cost > 0 or amount > 0, and then the entry is that row's
\* {cost, amount} (the last such row's when several carry the name); rows
\* with zero cost and zero amount change nothing and no step removes an entry
C18_CacheFollowsPricedRows ==
  [][/\ \A name \in IngredientNames :
          /\ CacheEntry(lsCache, name).has => CacheEntry(lsCache', name).has
          /\ CacheEntry(lsCache', name) # CacheEntry(lsCache, name) =>
               \E i \in 1..Len(rowsState') :
                 /\ Trim(rowsState'[i].name) = name
                 /\ Priced(rowsState'[i])
                 /\ CacheEntry(lsCache', name) = EntryOf(rowsState'[i])
     /\ CacheUpdating =>
          \A i \in 1..Len(rowsState') :
            Trim(rowsState'[i].name) # "" /\ Priced(rowsState'[i]) =>
              \E j \in i..Len(rowsState') :
                /\ Trim(rowsState'[j].name) = Trim(rowsState'[i].name)
                /\ Priced(rowsState'[j])
                /\ CacheEntry(lsCache', Trim(rowsState'[i].name)) = EntryOf(rowsState'[j])
    ]_vars

\* the entry of x is the priced row " x" typed in, while the zero row named y
\* left the cached pricing of y as it was
C18_Witness ==
  /\ events > 0
  /\ \E i \in 1..Len(rowsState) :
       /\ rowsState[i].name = " x" /\ rowsState[i].cost = 2 /\ rowsState[i].amount = 0
       /\ CacheEntry(lsCache, "x") = EntryOf(rowsState[i])
  /\ \E i \in 1..Len(rowsState) :
       /\ rowsState[i].name = "y" /\ ~Priced(rowsState[i])
       /\ CacheEntry(lsCache, "y") = [has |-> TRUE, cost |-> Num(1), amount |-> Num(1)]


(***************************************************************************)
(* Backup import: importBackupFromJsonText, lines 849-947.  The task of an *)
(* import carries the handler's locals in name (the parsed document and,   *)
(* as history, the stores as the handler found them, the number of its     *)
(* user event and whether no other handler was in progress) and the recipe *)
(* whose dbPutItems it awaits in target.                                   *)
(***************************************************************************)
\* Object.keys(obj.recipes) of the documents used; an array has the key "0"
ImportNames == RecipeNames \cup {"0"}

Text(s) == [k |-> "str", s |-> s]
DocRow(name, cost, amount, recipeAmount) ==
  [name |-> name, cost |-> cost, amount |-> amount, recipeAmount |-> recipeAmount]
\* a recipe of a document: an object, with a rows array (arr) or without
\* its meta is an object (obj) with a favorite and a folder of any type, or is
\* missing
NoDocMeta == [obj |-> FALSE, favorite |-> NilRaw, folder |-> NilRaw]
DocMeta(favorite, folder) == [obj |-> TRUE, favorite |-> favorite, folder |-> folder]
DocRecipe(name, arr, rows) ==
  [name |-> name, rows |-> [arr |-> arr, v |-> rows], meta |-> NoDocMeta]
NoDocCache == [has |-> FALSE, m |-> EmptyCache]
\* JSON.parse(jsonText): json is "bad" (not JSON), "null" or "object";
\* recipesType is "object", "array", "string" or "undefined"
Document(json, app, schemaVersion, recipesType, recipes, current, cache) ==
  [json |-> json, app |-> app, schemaVersion |-> schemaVersion,
   recipesType |-> recipesType, recipes |-> recipes,
   currentRecipe |-> current, cache |-> cache, marginPct |-> NilRaw,
   folders |-> <<>>]

OneRecipe == << DocRecipe("A", TRUE, << DocRow(Text("y"), Num(1), Num(1), Num(2)) >>) >>

ImportDocs ==
  { Document("bad", "", NilRaw, "undefined", <<>>, "", NoDocCache),
    Document("null", "", NilRaw, "undefined", <<>>, "", NoDocCache),
    Document("object", "OtherApp", Num(1), "object", OneRecipe, "A", NoDocCache),
    Document("object", "DessertCostCalculator", Str(1), "object", OneRecipe, "A", NoDocCache),
    Document("object", "DessertCostCalculator", Num(1), "undefined", <<>>, "", NoDocCache),
    Document("object", "DessertCostCalculator", Num(1), "string", <<>>, "", NoDocCache),
    Document("object", "DessertCostCalculator", Num(1), "array",
             << DocRecipe("0", TRUE, << DocRow(Text("x"), Num(1), Num(1), Num(1)) >>) >>,
             "", NoDocCache),
    Document("object", "DessertCostCalculator", Num(1), "object", OneRecipe, "A", NoDocCache),
    Document("object", "DessertCostCalculator", Num(1), "object",
             << DocRecipe("A", TRUE, <<>>) >>, "A", NoDocCache),
    Document("object", "DessertCostCalculator", Num(1), "object",
             << DocRecipe("A", TRUE, << DocRow(Text(" x"), Str(2), NilRaw, Num(3)),
                                        DocRow(NilRaw, Num(0), Num(0), Num(0)) >>),
                DocRecipe("B", FALSE, <<>>) >>,
             " B",
             [has |-> TRUE,
              m |-> [EmptyCache EXCEPT !["y"] = [has |-> TRUE, cost |-> Num(5),
                                                amount |-> Num(5)]]]),
    Document("object", "DessertCostCalculator", Num(2), "object",
             << DocRecipe("B", TRUE, << DocRow(Text("x"), Num(2), Num(1), Num(1)),
                                        DocRow(Text("y"), Num(1), Num(1), Num(1)) >>) >>,
             "", NoDocCache) }

\* function isValidBackupObject(obj)
isValidBackupObject(obj) ==
  /\ obj.json = "object"
  /\ obj.app = "DessertCostCalculator"
  /\ obj.schemaVersion.k = "num"
  /\ obj.recipesType \in {"object", "array"}

\* rows.map(...), lines 913-918: String(r?.name ?? "") and n() of each number
sanitize(rows) ==
  [i \in 1..Len(rows) |->
     [name |-> IF rows[i].name.k = "str" THEN rows[i].name.s ELSE "",
      cost |-> n(rows[i].cost), amount |-> n(rows[i].amount),
      recipeAmount |-> n(rows[i].recipeAmount)]]

\* line 867: saveFolders([...loadFolders(), ...incomingFolders])
importFolders(s, incomingFolders) ==
  saveFolders(s, loadFolders(s.folders) \o incomingFolders)

RECURSIVE importMeta(_, _, _)
\* lines 873-886: ensureMetaForRecipe for every incoming recipe, the favorite
\* and the folder of its meta taken over when of the right type, then saveMeta
importMeta(s, recipes, k) ==
  IF k > Len(recipes) THEN s
  ELSE LET rn == recipes[k].name
           incMeta == recipes[k].meta
           s1 == ensureMetaForRecipe(s, rn)
       IN  importMeta(
             IF incMeta.obj
             THEN [s1 EXCEPT !.meta[rn].favorite =
                               IF incMeta.favorite.k = "bool" THEN incMeta.favorite.v ELSE @,
                             !.meta[rn].folder =
                               IF incMeta.folder.k = "str" THEN incMeta.folder.s ELSE @]
             ELSE s1,
             recipes, k + 1)

\* lines 888-903: { ...cur, ...obj.settings.ingredientCache }
importSettings(s, incoming) ==
  IF ~incoming.has THEN s
  ELSE [s EXCEPT !.cache =
          [st |-> "obj",
           m |-> [nm \in IngredientNames |->
                    IF incoming.m[nm].has THEN incoming.m[nm]
                    ELSE loadIngredientCache(s.cache)[nm]]]]

importSwitchKeepCurrent(s, args) ==
  switchRecipe(s, "import", args, getCurrentRecipe(s), "import")

\* lines 932-939: the document's current recipe when it is one of its recipes,
\* the persisted current recipe otherwise
importSwitch(s, args) ==
  LET desiredCurrent == Trim(args.doc.currentRecipe)
      known == desiredCurrent # "" /\ args.doc.recipesType = "object"
               /\ \E k \in 1..Len(args.doc.recipes) :
                    args.doc.recipes[k].name = desiredCurrent
  IN  switchRecipe(s, "import", args,
                   IF known THEN desiredCurrent ELSE getCurrentRecipe(s), "import")

\* lines 891-895: settings.marginPct is saved when it is a number
importMargin(s, marginPct) ==
  IF marginPct.k = "num" THEN saveMarginPct(s, marginPct.v) ELSE s

RECURSIVE importRows(_, _, _)
\* lines 905-930 from the k-th recipe on, up to the next await dbPutItems
importRows(s, args, k) ==
  IF k > Len(args.doc.recipes) THEN importSwitch(s, args)
  ELSE LET rec == args.doc.recipes[k] IN
       IF ~rec.rows.arr THEN importRows(s, args, k + 1)
       ELSE LET s1 == saveRowsForRecipe(s, rec.name, sanitize(rec.rows.v)) IN
            IF s1.DB
            THEN Out(s1, Task("import", "im_read", args, rec.name, "import",
                              dbGetItems(s1.idb, rec.name)))
            ELSE importRows(s1, args, k + 1)

\* importBackupFromJsonText with an overwrite mode that replaces the metadata
importBackupReplacingMeta(s, obj, overwrite) ==
  IF obj.json = "bad" \/ ~isValidBackupObject(obj) THEN Out(s, DoneTask)
  ELSE importRows(importSettings(
                    importMargin(
                      importMeta(importFolders(IF overwrite THEN [s EXCEPT !.meta = NoMetas]
                                               ELSE s,
                                               obj.folders),
                                 obj.recipes, 1),
                      obj.marginPct),
                    obj.cache),
                  [doc |-> obj, ls |-> s.ls, idb |-> s.idb, events |-> events + 1,
                   alone |-> tasks = <<>>, prior |-> s.currentRecipe,
                   cache |-> s.cache, margin |-> s.margin], 1)

\* function importBackupFromJsonText(jsonText, overwrite) up to its first await;
\* the function never reads overwrite
importBackupFromJsonText(s, obj, overwrite) ==
  IF obj.json = "bad" \/ ~isValidBackupObject(obj) THEN Out(s, DoneTask)
  ELSE importRows(importSettings(importMargin(importMeta(importFolders(s, obj.folders),
                                                         obj.recipes, 1),
                                              obj.marginPct),
                                 obj.cache),
                  [doc |-> obj, ls |-> s.ls, idb |-> s.idb, events |-> events + 1,
                   alone |-> tasks = <<>>, prior |-> s.currentRecipe,
                   cache |-> s.cache, margin |-> s.margin], 1)

\* a session after boot: recipe A is current and persisted, nothing is pending
InitImport ==
  /\ DB \in BOOLEAN
  /\ idb \in { {ProfileRecord("A", "x", 1)},
               {ProfileRecord("A", "x", 1), ProfileRecord("B", "y", 1)} }
  /\ lsRows = [rn \in ImportNames |->
                 IF rn = "A" THEN Stringify(<<Row("x", 1, 1, 1)>>) ELSE AbsentEntry]
  /\ lsCache = CacheWith("x", 1, 1)
  /\ lsMargin = NilRaw
  /\ lsFolders = <<>>
  /\ filterFolder = ""
  /\ lsCurrent = "A"
  /\ lsMeta = [rn \in ImportNames |->
                 IF rn = "A" \/ \E r \in idb : r.recipeName = rn
                 THEN [has |-> TRUE, favorite |-> FALSE, folder |-> ""] ELSE NoMeta]
  /\ currentRecipe = "A"
  /\ rowsState = <<Row("x", 1, 1, 1)>>
  /\ rowsLoaded = TRUE
  /\ saveTimer = 0
  /\ timers = {}
  /\ recipeList = { rn \in RecipeNames : lsMeta[rn].has }
  /\ tasks = <<>>
  /\ rowsOwner = "A"
  /\ currentBy = "boot"
  /\ burst = NoBurst
  /\ edited = NoEdit
  /\ events = 0

\* importBtn click with the file read: importBackupFromJsonText runs to its
\* first await
\* first await; the overwrite toggle is checked or not
ImportClicked(obj) ==
  \E overwrite \in BOOLEAN : Start(importBackupFromJsonText(Cur, obj, overwrite))

ImportClick == \E obj \in ImportDocs : ImportClicked(obj)

IndexOfRecipe(recipes, name) == CHOOSE k \in 1..Len(recipes) : recipes[k].name = name

\* dbPutItems(DB, rn, sanitized) after await dbGetItems: the readwrite
\* transaction, committed or aborted
ImportWrite ==
  \E i \in 1..Len(tasks), commit \in BOOLEAN :
    LET args == tasks[i].name
        rec  == args.doc.recipes[IndexOfRecipe(args.doc.recipes, tasks[i].target)]
    IN  /\ tasks[i].pc = "im_read"
        /\ Resume(i, Out([Cur EXCEPT !.idb =
                            txOutcome(@, dbPutWrite(@, rec.name, tasks[i].items,
                                                    sanitize(rec.rows.v)), commit)],
                         [tasks[i] EXCEPT !.pc = IF commit THEN "im_tx" ELSE "im_abort"]))

\* try{ await dbPutItems(DB, rn, sanitized); }catch{}: resolved or rejected, the
\* loop goes on with the next recipe
ImportPutEnds(i) ==
  /\ tasks[i].pc \in {"im_read", "im_tx", "im_abort"}
  /\ Resume(i, importRows(Cur, tasks[i].name,
                          IndexOfRecipe(tasks[i].name.doc.recipes, tasks[i].target) + 1))

ImportPutDone == \E i \in 1..Len(tasks) : ImportPutEnds(i)

NextImport ==
  \/ ImportClick
  \/ ImportWrite
  \/ ImportPutDone
  \/ EnsureReadOK
  \/ EnsureReadFail
  \/ RefreshOK
  \/ RefreshFail
  \/ Edit(EditInputs)
  \/ TimerFire

SpecImport == InitImport /\ [][NextImport]_vars


(***************************************************************************)
(* Claims on import (specification SpecImport)                             *)
(***************************************************************************)
\* a document the import has to reject: wrong app identifier, a schemaVersion
\* that is not a number, or a recipes field that is not a mapping
Unacceptable(obj) ==
  \/ obj.json # "object"
  \/ obj.app # "DessertCostCalculator"
  \/ obj.schemaVersion.k # "num"
  \/ obj.recipesType # "object"

\* C19: the import of a document whose app identifier does not match, whose
\* schemaVersion is not a number or whose recipes field is not a mapping starts
\* nothing and leaves the Row Store, the Profile Store, the Ingredient Cache,
\* the metadata, the current recipe and the working rows as they were
C19_UnacceptableDocumentRejected ==
  [][\A obj \in ImportDocs :
       ImportClicked(obj) /\ Unacceptable(obj) =>
         /\ tasks' = tasks
         /\ UNCHANGED <<lsRows, idb, lsCache, lsMargin, lsFolders, filterFolder, lsMeta, lsCurrent, currentRecipe,
                        rowsState>>
    ]_vars

\* the stores ls1, store1 hold the document of args for each of its recipes with
\* a rows array and what the import found (args.ls, args.idb) for the recipes
\* that the document does not name
ImportedAsDocument(args, ls1, store1, db) ==
  /\ \A k \in 1..Len(args.doc.recipes) :
       LET rec == args.doc.recipes[k] IN
       rec.rows.arr =>
         /\ ls1[rec.name] = Stringify(sanitize(rec.rows.v))
         /\ db => { r \in store1 : r.recipeName = rec.name }
                    = Projection(rec.name, sanitize(rec.rows.v))
  /\ \A rn \in ImportNames :
       (\A k \in 1..Len(args.doc.recipes) : args.doc.recipes[k].name # rn) =>
         /\ ls1[rn] = args.ls[rn]
         /\ { r \in store1 : r.recipeName = rn } = { r \in args.idb : r.recipeName = rn }

\* the last step of an import that awaited: its refreshRecipesUI resolves
ImportEnds(i) == tasks[i].kind = "import" /\ Refreshed(i)

\* C20: when the import of an acceptable document has completed, no handler
\* having been in progress when it began and no other user event having come
\* in the meantime, every recipe of the document with a rows
\* array has the document's rows (coerced) as its Row Store entry and their
\* projection as its Profile Store records, and every recipe the document does
\* not name has the entry and the records it had
C20_ImportedAsDocument ==
  [][/\ \A i \in 1..Len(tasks) :
          (ImportEnds(i) /\ ~Unacceptable(tasks[i].name.doc)
             /\ tasks[i].name.alone /\ events = tasks[i].name.events) =>
            ImportedAsDocument(tasks[i].name, lsRows', idb', DB)
     /\ \A obj \in ImportDocs :
          ImportClicked(obj) /\ ~Unacceptable(obj) /\ tasks = <<>> /\ tasks' = <<>> =>
            ImportedAsDocument([doc |-> obj, ls |-> lsRows, idb |-> idb],
                               lsRows', idb', DB)
    ]_vars


(***************************************************************************)
(* Totals: computeRow, computeTotal and the final price of                 *)
(* updateTotalAndPricing, lines 201-212 and 351-362.  A quotient is kept   *)
(* exactly, as numerator and positive denominator.                         *)
(***************************************************************************)
Q(num, den) == [num |-> num, den |-> den]

\* function computeRow(r): recipeCost
computeRowAmountIgnored(r) == Q(r.cost * r.recipeAmount, 1)

computeRow(r) ==
  LET unit == IF r.amount > 0 THEN Q(r.cost, r.amount) ELSE Q(0, 1)
  IN  Q(unit.num * r.recipeAmount, unit.den)

RECURSIVE computeTotalFrom(_, _, _)
\* function computeTotal(rows): total += computeRow(rows[i]).recipeCost
computeTotalFrom(rows, i, total) ==
  IF i > Len(rows) THEN total
  ELSE LET c == computeRow(rows[i])
       IN  computeTotalFrom(rows, i + 1,
                            Q(total.num * c.den + c.num * total.den, total.den * c.den))

computeTotal(rows) == computeTotalFrom(rows, 1, Q(0, 1))

\* Math.round(total * (1 + marginPct / 100)); Math.round(x) is floor(x + 1/2)
finalPriceFloor(total, marginPct) ==
  (total.num * (100 + marginPct)) \div (total.den * 100)

finalPrice(total, marginPct) ==
  (2 * total.num * (100 + marginPct) + total.den * 100) \div (2 * total.den * 100)

CalcRows ==
  { Row("x", 387, 1, 1), Row("x", 129, 1, 3), Row("y", 3, 2, 1), Row("y", 5, 3, 3),
    Row("x", 5, 1, 1), Row("", 0, 0, 0), Row("y", 4, 0, 2), Row("x", 0, 2, 1) }

\* n(marginEl.value)
MarginChoices == {0, 10, 30, 50}

InitCalc ==
  /\ rowsState \in { <<>> } \cup { <<r>> : r \in CalcRows }
                   \cup { <<r, q>> : r \in CalcRows, q \in CalcRows }
  /\ lsRows = NoRows
  /\ lsCache = [st |-> "absent", m |-> EmptyCache]
  /\ lsMargin = NilRaw
  /\ lsFolders = <<>>
  /\ filterFolder = ""
  /\ idb = {}
  /\ DB = FALSE
  /\ lsCurrent = ""
  /\ lsMeta = NoMetas
  /\ currentRecipe = "Default"
  /\ rowsLoaded = TRUE
  /\ saveTimer = 0
  /\ timers = {}
  /\ recipeList = {}
  /\ tasks = <<>>
  /\ rowsOwner = "Default"
  /\ currentBy = "init"
  /\ burst = NoBurst
  /\ edited = NoEdit
  /\ events = 0

\* function updateTotalAndPricing(rows): what totalCell and finalPriceCell show
UpdateTotalAndPricing ==
  \E marginPct \in MarginChoices :
    /\ tasks' = << [kind |-> "pricing", pc |-> "done", marginPct |-> marginPct,
                    total |-> computeTotal(rowsState),
                    finalPrice |-> finalPrice(computeTotal(rowsState), marginPct)] >>
    /\ ListFrame

NextCalc == UpdateTotalAndPricing

SpecCalc == InitCalc /\ [][NextCalc]_vars

(***************************************************************************)
(* Claims on the totals (specification SpecCalc)                           *)
(***************************************************************************)
Shown == tasks # <<>> /\ tasks[1].kind = "pricing"

\* the product of the positive amounts of rows: a common denominator
RECURSIVE CommonDen(_, _)
CommonDen(rows, i) ==
  IF i > Len(rows) THEN 1
  ELSE (IF rows[i].amount > 0 THEN rows[i].amount ELSE 1) * CommonDen(rows, i + 1)

\* the sum of the line costs, (cost / amount) * recipeAmount when amount > 0
\* and 0 when amount is 0, times the common denominator d
RECURSIVE LineCostSum(_, _, _)
LineCostSum(rows, i, d) ==
  IF i > Len(rows) THEN 0
  ELSE (IF rows[i].amount > 0
        THEN rows[i].cost * rows[i].recipeAmount * (d \div rows[i].amount)
        ELSE 0)
       + LineCostSum(rows, i + 1, d)

\* C26: the total shown is the sum over all rows of lineCost, where lineCost is
\* (cost / amount) * recipeAmount when amount > 0 and 0 when amount is 0,
\* whatever the cost
C26_TotalIsSumOfLineCosts ==
  Shown =>
    LET d == CommonDen(rowsState, 1) IN
    tasks[1].total.num * d = LineCostSum(rowsState, 1, d) * tasks[1].total.den

\* a total of two rows, one of them with amount 0 and a cost, the other a
\* quotient that is not an integer
C26_Witness ==
  /\ Shown
  /\ Len(rowsState) = 2
  /\ rowsState[1].amount = 0 /\ rowsState[1].cost # 0 /\ rowsState[1].recipeAmount # 0
  /\ rowsState[2].amount = 2 /\ rowsState[2].cost = 3
  /\ tasks[1].total.num * 2 = 3 * tasks[1].total.den

\* C27: the final price is the integer nearest to total * (1 + marginPct / 100),
\* a half rounded up; for total 387 and margin 30 it is 503
C27_FinalPriceIsRounded ==
  Shown =>
    LET total == tasks[1].total
        num   == total.num * (100 + tasks[1].marginPct)
        den   == total.den * 100
        price == tasks[1].finalPrice
    IN  /\ price \in Int
        /\ 2 * price * den <= 2 * num + den
        /\ 2 * num + den < 2 * (price + 1) * den
        /\ (total.num = 387 * total.den /\ tasks[1].marginPct = 30) => price = 503

\* total 387 with margin 30, shown as 503
C27_Witness ==
  /\ Shown
  /\ tasks[1].total.num = 387 * tasks[1].total.den
  /\ tasks[1].marginPct = 30
  /\ tasks[1].finalPrice = 503


(***************************************************************************)
(* Claims on the row buttons and on recipe creation (specification Spec)   *)
(***************************************************************************)
\* C24: right after the add-row and the delete-row handler the Row Store entry
\* of the current recipe is the working rows, written before the handler
\* returns; deleting the only remaining row leaves both equal to exactly one
\* blank row
C24_RowButtonsPersistAtOnce ==
  [][/\ (AddRow \/ DeleteRow) =>
          lsRows'[currentRecipe'] = Stringify(rowsState')
     /\ (DeleteRow /\ Len(rowsState) = 1) =>
          /\ rowsState' = <<BlankRow>>
          /\ lsRows'[currentRecipe'] = Stringify(<<BlankRow>>)
    ]_vars

\* a row was added and is persisted while the debounced save is still pending
C24_Witness ==
  /\ Len(rowsState) = 2
  /\ rowsState[2] = BlankRow
  /\ lsRows[currentRecipe] = Stringify(rowsState)
  /\ saveTimer # 0 /\ saveTimer \in timers

\* createRecipeClean(name) passes lines 585-596 for task i: after the await of
\* dbDeleteRecipe, resolved or rejected
CreateEnds(i) ==
  /\ tasks[i].pc \in {"cr_read", "cr_tx", "cr_abort"}
  /\ Resume(i, createEnd(Cur, tasks[i].name))

\* C25: createRecipe(name) ends with name as the current recipe and as the
\* persisted pointer, the working rows and the Row Store entry of name equal to
\* a single blank row, and no Profile Store record of name left
C25_CreateIsDestructive ==
  [][/\ \A i \in 1..Len(tasks) :
          CreateEnds(i) =>
            /\ currentRecipe' = tasks[i].name
            /\ lsCurrent' = tasks[i].name
            /\ rowsState' = <<BlankRow>>
            /\ lsRows'[tasks[i].name] = Stringify(<<BlankRow>>)
            /\ { r \in idb' : r.recipeName = tasks[i].name } = {}
     /\ \A name \in RecipeNames :
          (~DB /\ Start(createClick(Cur, name))) =>
            /\ currentRecipe' = name
            /\ lsCurrent' = name
            /\ rowsState' = <<BlankRow>>
            /\ lsRows'[name] = Stringify(<<BlankRow>>)
    ]_vars


(***************************************************************************)
(* Claims on the rows an import leaves (specification SpecImport)          *)
(***************************************************************************)
\* C23: no Row Store entry holds an empty row sequence and the working rows are
\* never empty
C23_NoEmptyRows ==
  /\ \A rn \in DOMAIN lsRows :
       lsRows[rn].st = "rows" => Len(lsRows[rn].rows) > 0
  /\ rowsState # <<>>


(***************************************************************************)
(* Claim on the sign of the numbers (specification SpecCache)              *)
(***************************************************************************)
NonNegative(rows, num(_)) ==
  \A i \in 1..Len(rows) :
    num(rows[i].cost) >= 0 /\ num(rows[i].amount) >= 0 /\ num(rows[i].recipeAmount) >= 0

AllNonNegative ==
  /\ NonNegative(rowsState, LAMBDA v : v)
  /\ \A rn \in DOMAIN lsRows : NonNegative(lsRows[rn].rows, n)

\* C29: the cost, amount and recipeAmount of every working row and of every
\* persisted row are non-negative: no step makes one of them negative
C29_NumbersStayNonNegative ==
  [][AllNonNegative => AllNonNegative']_vars


(***************************************************************************)
(* Claim on the metadata of a deleted recipe (specification Spec)          *)
(***************************************************************************)
\* C30: when the delete handler of a recipe returns and the recipe is not the
\* current recipe afterwards, the metadata mapping has no entry for it
C30_DeletedHasNoMetadata ==
  [][\A name \in RecipeNames, ret \in {"other", "delete", "deleteDefault"} :
       (DeleteEnds(name, ret) /\ currentRecipe' # name) => lsMeta'[name] = NoMeta]_vars


(***************************************************************************)
(* Claim on the current recipe an import leaves (specification SpecImport) *)
(***************************************************************************)
DocNames(obj) == { obj.recipes[k].name : k \in 1..Len(obj.recipes) }

\* the current recipe the import of obj is to leave, prior being the current
\* recipe when it began and declared the name the document declares
Expected(obj, declared, prior) ==
  IF declared # "" /\ declared \in DocNames(obj) THEN declared ELSE prior

\* the import of a valid document returns in this step, no handler having been
\* in progress when it began and no other user event having come in the
\* meantime, and leaves currentRecipe as Expected says, declared(obj) being the
\* declared name
CurrentAsDeclared(declared(_)) ==
  /\ \A i \in 1..Len(tasks) :
       (ImportEnds(i) /\ isValidBackupObject(tasks[i].name.doc)
          /\ tasks[i].name.alone /\ events = tasks[i].name.events) =>
          currentRecipe' = Expected(tasks[i].name.doc, declared(tasks[i].name.doc),
                                    tasks[i].name.prior)
  /\ \A obj \in ImportDocs :
       (ImportClicked(obj) /\ isValidBackupObject(obj) /\ tasks = <<>> /\ tasks' = <<>>) =>
          currentRecipe' = Expected(obj, declared(obj), currentRecipe)

LoadingStep == BootOpenDB \/ SwitchClick \/ DeleteClick \/ CreateClick

\* the working rows after the step are those it began with, the Row Store entry
\* of the recipe now current, or the blank default
RowsFromRowStore ==
  LET fromLS == loadRowsForRecipe(lsRows, currentRecipe') IN
  \/ rowsState' = rowsState
  \/ rowsState' = defaultRows
  \/ fromLS.ok /\ rowsState' = fromLS.rows

exportedRows(s, rn, failed) ==
  LET fromLS == loadRowsForRecipe(s.ls, rn) IN
  IF fromLS.ok THEN fromLS.rows
  ELSE IF s.DB /\ rn \notin failed THEN BuiltRows(s.cache, dbGetItems(s.idb, rn))
  ELSE defaultRows

\* JSON.stringify and JSON.parse of a row sequence
JsonRows(rows) ==
  [i \in 1..Len(rows) |->
     DocRow(Text(rows[i].name), Num(rows[i].cost), Num(rows[i].amount),
            Num(rows[i].recipeAmount))]

\* function buildBackupObject()
buildBackupObject(s, failed) ==
  LET names == listAllRecipeNames(s, IF s.DB THEN dbListRecipes(dbGetAll(s.idb)) ELSE {}) IN
  [Document("object", "DessertCostCalculator", Num(1), "object",
            [k \in 1..Len(names) |->
               [DocRecipe(names[k], TRUE, JsonRows(exportedRows(s, names[k], failed)))
                  EXCEPT !.meta = DocMeta([k |-> "bool", v |-> s.meta[names[k]].favorite],
                                          Text(s.meta[names[k]].folder))]],
            getCurrentRecipe(s),
            [has |-> TRUE, m |-> loadIngredientCache(s.cache)])
     EXCEPT !.marginPct = Num(loadMarginPct(s.margin)),
            !.folders = loadFolders(s.folders)]

MarginStored == { NilRaw, Str(10), NaNRaw }
RoundCaches == { c \in CacheChoices : c.st = "malformed" \/ c.m["y"].has }

\* a session after boot: recipe A is current with rows, recipe B is known by
\* its profile only or has rows as well, the stored settings vary
InitRound ==
  /\ DB \in BOOLEAN
  /\ idb = {ProfileRecord("A", "x", 2), ProfileRecord("B", "y", 1)}
  /\ \E b \in { AbsentEntry, MalformedEntry, Stringify(<<Row("y", 2, 1, 1)>>) } :
       lsRows = [rn \in ImportNames |->
                   IF rn = "A" THEN Stringify(<<Row("x", 1, 1, 1)>>)
                   ELSE IF rn = "B" THEN b ELSE AbsentEntry]
  /\ lsCache \in RoundCaches
  /\ lsMargin \in MarginStored
  /\ lsFolders = <<>>
  /\ filterFolder = ""
  /\ lsCurrent = "A"
  /\ lsMeta = [rn \in ImportNames |->
                 IF rn \in {"A", "B"}
                 THEN [has |-> TRUE, favorite |-> FALSE, folder |-> ""] ELSE NoMeta]
  /\ currentRecipe = "A"
  /\ rowsState = <<Row("x", 1, 1, 1)>>
  /\ rowsLoaded = TRUE
  /\ saveTimer = 0
  /\ timers = {}
  /\ recipeList = {"A", "B"}
  /\ tasks = <<>>
  /\ rowsOwner = "A"
  /\ currentBy = "boot"
  /\ burst = NoBurst
  /\ edited = NoEdit
  /\ events = 0

\* export, then import of the file just exported
RoundTrip ==
  \E failed \in SUBSET RecipeNames : ImportClicked(buildBackupObject(Cur, failed))

\* marginPct input handler, lines 1012-1015
MarginInput ==
  \E v \in {Typed("50", 50), Typed("", 0)} :
    /\ events < MaxEvents
    /\ events' = events + 1
    /\ Commit(saveMarginPct(Cur, n(v)))
    /\ burst' = NoBurst
    /\ UNCHANGED edited
    /\ UNCHANGED tasks

NextRound ==
  \/ RoundTrip
  \/ ImportWrite
  \/ ImportPutDone
  \/ RefreshOK
  \/ RefreshFail
  \/ Edit(EditInputs)
  \/ MarginInput
  \/ TimerFire

SpecRound == InitRound /\ [][NextRound]_vars

(***************************************************************************)
(* Claim on the backup round trip (specification SpecRound)                *)
(***************************************************************************)
\* listAllRecipeNames() with the stores as given
NamesOf(ls, store, db) ==
  ListedNames([ls |-> ls], IF db THEN dbListRecipes(dbGetAll(store)) ELSE {})

\* the rows ensureRowsForRecipe(rn) resolves with the stores as given
RowsOf(ls, store, cache, db, rn) ==
  LET s == [ls |-> ls, DB |-> db, cache |-> cache]
      r == ensureRowsSync(s, rn)
  IN  IF r.wait THEN ensureRowsAsync(s, dbGetItems(store, rn)) ELSE r.rows

\* the stores ls1, store1, cache1, margin1 hold what the import args began with
SameAsBefore(args, ls1, store1, cache1, margin1, db) ==
  /\ NamesOf(ls1, store1, db) = NamesOf(args.ls, args.idb, db)
  /\ \A rn \in ImportNames :
       RowsOf(ls1, store1, cache1, db, rn) = RowsOf(args.ls, args.idb, args.cache, db, rn)
  /\ loadMarginPct(margin1) = loadMarginPct(args.margin)
  /\ loadIngredientCache(cache1) = loadIngredientCache(args.cache)

\* C21: when the import of the document just exported has completed, no
\* handler having been in progress when it began and no other user event
\* having come in the meantime, listAllRecipeNames(), the rows ensureRows
\* resolves for every recipe, the margin percentage and the Ingredient Cache
\* are what they were when the export was taken
C21_RoundTripChangesNothing ==
  [][/\ \A i \in 1..Len(tasks) :
          (ImportEnds(i) /\ tasks[i].name.alone /\ events = tasks[i].name.events) =>
            SameAsBefore(tasks[i].name, lsRows', idb', lsCache', lsMargin', DB)
     /\ (RoundTrip /\ tasks = <<>> /\ tasks' = <<>>) =>
            SameAsBefore([ls |-> lsRows, idb |-> idb, cache |-> lsCache,
                          margin |-> lsMargin],
                         lsRows', idb', lsCache', lsMargin', DB)
    ]_vars


(***************************************************************************)
(* Claim on the resurrection of a deleted recipe (specification Spec)      *)
(***************************************************************************)
\* the delete handler of recipe name awaits dbDeleteRecipe
Deleting(name) ==
  \E i \in 1..Len(tasks) :
    /\ tasks[i].kind = "delete" /\ tasks[i].name = name
    /\ tasks[i].pc \in {"del_read", "del_tx", "del_abort"}

\* a debounced save, an edit, a row button or a step of a switch
Interleaved ==
  TimerFire \/ Edit(EditInputs) \/ AddRow \/ DeleteRow \/ Reset \/ SwitchClick \/ EnsureReadOK

\* C33: while the delete handler of a recipe awaits the Profile Store deletion,
\* having removed the recipe's Row Store entry, no debounced save, edit, row
\* button or switch writes a Row Store entry for that name
C33_NeverResurrected ==
  [][\A name \in RecipeNames :
       (Deleting(name) /\ lsRows[name].st = "absent" /\ Interleaved) =>
          lsRows'[name].st = "absent"]_vars


(***************************************************************************)
(* Persistence of edits.  The browser runs a due timeout and settles every *)
(* pending IndexedDB request: weak fairness on both; user events are not   *)
(* fair.                                                                   *)
(***************************************************************************)
Settles ==
  \/ BootOpenDB
  \/ EnsureReadOK \/ EnsureReadFail
  \/ DeleteReadOK \/ DeleteReadFail \/ DeleteTxOK \/ DeleteTxFail
  \/ DeleteListOK \/ DeleteListFail
  \/ RefreshOK \/ RefreshFail

\* boot, edits, switches and deletions
NextLive ==
  \/ Settles
  \/ SwitchClick
  \/ DeleteClick
  \/ Edit(EditInputs)
  \/ TimerFire

SpecLive == Init /\ [][NextLive]_vars /\ WF_vars(TimerFire) /\ WF_vars(Settles)

\* the Row Store entry of the edited recipe holds the rows the last edit left,
\* or the recipe was deleted, or the working rows of that recipe were changed
\* again
Persisted ==
  /\ edited.has
  /\ \/ lsRows[edited.rn].st = "absent"
     \/ lsRows[edited.rn] = Stringify(edited.rows)
     \/ currentRecipe = edited.rn /\ rowsState # edited.rows

\* C34: an edit made while recipe R is current is eventually in the Row Store
\* entry of R, unless R is deleted or its working rows are changed again, also
\* when a switch or the deletion of another recipe comes before the timer fires
C34_EditsArePersisted == edited.has ~> Persisted


(***************************************************************************)
(* dbPutItems and dbDeleteRecipe on names that contain the separator of    *)
(* the key: recipe "A" with ingredient "z::x" and recipe "A::z" with       *)
(* ingredient "x" both have the key "A::z::x".                             *)
(***************************************************************************)
KeyRecipes == {"A", "A::z"}
KeyRowChoices ==
  { <<>>, <<PutRow("x", 1)>>, <<PutRow("z::x", 3)>>, <<PutRow("x", 2), PutRow("y", 1)>> }
KeyProfileChoices ==
  SUBSET { ProfileRecord("A", "x", 1), ProfileRecord("A::z", "x", 2),
           ProfileRecord("B", "x", 1) }

InitKeys ==
  /\ idb \in KeyProfileChoices
  /\ DB = TRUE
  /\ tasks = <<>>
  /\ events = 0
  /\ lsRows = NoRows
  /\ lsCurrent = ""
  /\ lsCache = [st |-> "absent", m |-> EmptyCache]
  /\ lsMargin = NilRaw
  /\ lsFolders = <<>>
  /\ filterFolder = ""
  /\ lsMeta = NoMetas
  /\ currentRecipe = "Default"
  /\ rowsState = <<>>
  /\ rowsLoaded = FALSE
  /\ saveTimer = 0
  /\ timers = {}
  /\ recipeList = {}
  /\ rowsOwner = ""
  /\ currentBy = "init"
  /\ burst = NoBurst
  /\ edited = NoEdit

KeyPutCall == \E name \in KeyRecipes, rows \in KeyRowChoices : CallStart("put", name, rows)

KeyDelCall == \E name \in KeyRecipes : CallStart("del", name, <<>>)

NextKeys ==
  \/ KeyPutCall
  \/ KeyDelCall
  \/ CallWrite
  \/ CallReject
  \/ CallResolve

SpecKeys == InitKeys /\ [][NextKeys]_vars

\* the records of the recipes other than name
OthersOf(store, name) == { r \in store : r.recipeName # name }

\* C35: the readwrite transaction of dbPutItems(name, rows) or of
\* dbDeleteRecipe(name) leaves the records of every other recipe as they are,
\* also when a name contains "::"
C35_OtherRecipesUntouched ==
  [][\A i \in 1..Len(tasks), commit \in BOOLEAN :
       Wrote(i, commit) => OthersOf(idb', tasks[i].name) = OthersOf(idb, tasks[i].name)]_vars


(***************************************************************************)
(* Claim on overlapping dbPutItems calls (specification SpecPut)           *)
(***************************************************************************)
\* calls i and j of dbPutItems, for the same recipe, have both resolved and no
\* other call was made
BothPut(i, j) ==
  /\ Len(tasks) = 2 /\ i = 1 /\ j = 2
  /\ tasks[i].kind = "put" /\ tasks[i].pc = "done"
  /\ tasks[j].kind = "put" /\ tasks[j].pc = "done"
  /\ tasks[j].name = tasks[i].name

\* C36: when two dbPutItems calls for the same recipe have both resolved,
\* overlapping or not, the records of the recipe are the projection of the rows
\* of one of the two calls
C36_NoMixture ==
  \A i, j \in 1..Len(tasks) :
    BothPut(i, j) =>
      \/ ProfileOf(tasks[i].name) = Projection(tasks[i].name, tasks[i].rows)
      \/ ProfileOf(tasks[i].name) = Projection(tasks[i].name, tasks[j].rows)


(***************************************************************************)
(* Claim on failed write transactions (specification Spec)                 *)
(***************************************************************************)
\* the readwrite transaction made by the handler of task i has aborted and the
\* awaited dbPutItems / dbDeleteRecipe is about to reject
WriteAborted(i) == tasks[i].pc \in {"sv_abort", "del_abort", "cr_abort", "im_abort"}

\* the handler of task i goes on with the statements that follow its awaited
\* store call
GoesOn(i) ==
  \/ tasks[i].kind = "create" /\ CreateEnds(i)
  \/ tasks[i].kind = "import" /\ ImportPutEnds(i)
  \/ tasks[i].kind = "delete" /\ Resume(i, deleteAfterDb(Cur, tasks[i].name))
  \/ tasks[i].kind = "save" /\ Resume(i, refreshStart(Cur, "save", tasks[i].name, ""))

\* C31: a save, a recipe deletion, a recipe creation or an import whose write
\* transaction aborted ends in its failure path; it never goes on as after a
\* write that succeeded
C31_WriteFailureIsReported ==
  [][\A i \in 1..Len(tasks) : WriteAborted(i) => ~GoesOn(i)]_vars


(***************************************************************************)
(* Claim on failed recipe deletions (specification Spec)                   *)
(***************************************************************************)
\* the deletion made by task i fails: dbDeleteRecipe rejects, at its read or
\* when its transaction aborts, and the handler's catch block runs
DeleteFails(i) ==
  /\ tasks[i].kind = "delete"
  /\ tasks[i].pc \in {"del_read", "del_abort"}
  /\ Reject(i)

\* nothing but the deletion of task i has touched the recipe since its call
OnlyDelete(i) == Len(tasks) = 1 /\ edited.rn # tasks[i].name

\* C39: when a recipe deletion fails, the Row Store entry, the ProfileRecords
\* and the metadata of the recipe are as they were before the call
C39_FailedDeleteChangesNothing ==
  [][\A i \in 1..Len(tasks) :
       (DeleteFails(i) /\ OnlyDelete(i)) =>
         /\ lsRows'[tasks[i].name] = tasks[i].before.rows
         /\ dbGetItems(idb', tasks[i].name) = tasks[i].items
         /\ lsMeta'[tasks[i].name] = tasks[i].before.meta]_vars


(***************************************************************************)
(* Claim on failed recipe switches (specification Spec)                    *)
(***************************************************************************)
\* switchRecipe, called by the click of task i, fails while it resolves the
\* rows: await dbGetItems in ensureRowsForRecipe rejects; no other handler is
\* in progress and the user has done nothing since the click
SwitchFails(i) ==
  /\ tasks[i].kind = "click"
  /\ tasks[i].pc = "ensure"
  /\ Len(tasks) = 1
  /\ events = tasks[i].before.events
  /\ Reject(i)

\* C40: when switchRecipe fails while resolving the rows, currentRecipe, the
\* persisted pointer and the working rows are as they were before the call
C40_FailedSwitchChangesNothing ==
  [][\A i \in 1..Len(tasks) :
       SwitchFails(i) =>
         /\ currentRecipe' = tasks[i].before.currentRecipe
         /\ lsCurrent' = tasks[i].before.cur
         /\ rowsState' = tasks[i].before.rowsState]_vars


(***************************************************************************)
(* Claim on the Row Store entry of the current recipe (specification Spec) *)
(***************************************************************************)
\* C37: whenever no handler is in progress, boot included, the Row Store holds
\* an entry for the current recipe
C37_CurrentHasRowStoreEntry ==
  tasks = <<>> => lsRows[currentRecipe].st # "absent"


(***************************************************************************)
(* Folders (specification SpecFolders): the folder handlers, recipe        *)
(* creation under a folder filter and the import of documents that carry   *)
(* folders and recipe metadata.                                            *)
(***************************************************************************)
\* createFolderBtn click, lines 1150-1161
createFolder(s, text) ==
  IF Trim(text) = "" THEN Out(s, DoneTask)
  ELSE refreshStart(saveFolders(s, loadFolders(s.folders) \o <<Trim(text)>>),
                    "folder", "", "")

\* Eliminar click on folder f, lines 672-697
deleteFolder(s, f) ==
  LET s1 == saveFolders(s, SelectSeq(loadFolders(s.folders), LAMBDA x : x # f))
      s2 == [s1 EXCEPT !.meta = [rn \in DOMAIN @ |->
                                   IF @[rn].has /\ @[rn].folder = f
                                   THEN [@[rn] EXCEPT !.folder = ""] ELSE @[rn]],
                       !.filterFolder = IF @ = f THEN "" ELSE @]
  IN  refreshStart(syncCurrentRecipeMetaUI(s2), "folder", "", "")

\* currentFolderSelect change, lines 1123-1133; clearFolderBtn click, lines
\* 1136-1146, is the same with folder ""
assignFolder(s, folder) ==
  refreshStart(syncCurrentRecipeMetaUI(
                 [ensureMetaForRecipe(s, s.currentRecipe)
                    EXCEPT !.meta[s.currentRecipe].folder = folder]),
               "folder", "", "")

\* folderFilter change, lines 1027-1032; Filtrar click, lines 662-667;
\* resetFiltersBtn click, lines 1044-1058, is the same with ""
filterChange(s, f) == refreshStart([s EXCEPT !.filterFolder = f], "folder", "", "")

\* the options of #currentFolderSelect and #folderFilter: "" and the folders
\* (refreshFolderSelectOptions, refreshFolderFilterOptions)
FolderOptions == {""} \cup { lsFolders[i] : i \in 1..Len(lsFolders) }

FolderTexts == {"F", " F", "G", " "}

CreateFolderClick == \E text \in FolderTexts : Start(createFolder(Cur, text))
DeleteFolderClick == \E i \in 1..Len(lsFolders) : Start(deleteFolder(Cur, lsFolders[i]))
AssignFolder == \E folder \in FolderOptions : Start(assignFolder(Cur, folder))
FilterChange == \E f \in FolderOptions : Start(filterChange(Cur, f))

\* documents with folders and recipe metadata; the recipes have no rows array
FolderDoc(folders, meta) ==
  [Document("object", "DessertCostCalculator", Num(1), "object",
            << [DocRecipe("A", FALSE, <<>>) EXCEPT !.meta = meta] >>, "", NoDocCache)
     EXCEPT !.folders = folders]

FolderDocs ==
  { FolderDoc(<<" F">>, DocMeta([k |-> "bool", v |-> TRUE], Text("F"))),
    FolderDoc(<<"G", "F", "G">>, DocMeta(NilRaw, NilRaw)),
    FolderDoc(<<>>, NoDocMeta),
    FolderDoc(<<>>, DocMeta(NilRaw, Text("G"))) }

FolderImportClick == \E obj \in FolderDocs : ImportClicked(obj)

\* a session after boot: recipe A is current, in folder F or in none
InitFolders ==
  /\ lsRows = [NoRows EXCEPT !["A"] = Stringify(<<Row("x", 1, 1, 1)>>)]
  /\ lsCurrent = "A"
  /\ lsCache = [st |-> "absent", m |-> EmptyCache]
  /\ lsMargin = NilRaw
  /\ lsFolders \in { <<>>, <<"F">> }
  /\ filterFolder = ""
  /\ \E folder \in FolderOptions :
       lsMeta = [NoMetas EXCEPT !["A"] = [has |-> TRUE, favorite |-> FALSE, folder |-> folder]]
  /\ idb = {}
  /\ DB \in BOOLEAN
  /\ currentRecipe = "A"
  /\ rowsState = <<Row("x", 1, 1, 1)>>
  /\ rowsLoaded = TRUE
  /\ saveTimer = 0
  /\ timers = {}
  /\ recipeList = {"A"}
  /\ tasks = <<>>
  /\ rowsOwner = "A"
  /\ currentBy = "boot"
  /\ burst = NoBurst
  /\ edited = NoEdit
  /\ events = 0

NextFolders ==
  \/ CreateFolderClick
  \/ DeleteFolderClick
  \/ AssignFolder
  \/ FilterChange
  \/ CreateClick
  \/ CreateReadOK
  \/ CreateReadFail
  \/ CreateTxDone
  \/ FolderImportClick
  \/ RefreshOK
  \/ RefreshFail

SpecFolders == InitFolders /\ [][NextFolders]_vars

\* C38: the folder of every recipe's metadata is "" or a member of the
\* persisted folder list
C38_FoldersAreListed ==
  \A rn \in DOMAIN lsMeta :
    lsMeta[rn].has => lsMeta[rn].folder \in FolderOptions

(***************************************************************************)
(* The import modes (specification SpecModes): imports in either mode over *)
(* sessions that differ in their stores, metadata and folders.             *)
(***************************************************************************)
ModeDocs == ImportDocs \cup FolderDocs

\* importBackup, lines 949-979: the mode is read from #importOverwriteToggle
\* and handed to importBackupFromJsonText; the task remembers it
ModeImport(obj, overwrite) ==
  LET r == importBackupFromJsonText(Cur, obj, overwrite) IN
  Start(Out(r.s, r.t @@ [overwrite |-> overwrite]))

\* the documents imported: with rows, with folders and metadata, not valid
ModeClickDocs ==
  { obj \in ModeDocs :
      \/ obj.json = "null"
      \/ obj.folders # <<>>
      \/ obj.currentRecipe = " B"
      \/ obj.recipesType = "object" /\ obj.schemaVersion = Num(1) /\ obj.recipes = OneRecipe }

ModeImportClick ==
  \E obj \in ModeClickDocs, overwrite \in BOOLEAN : ModeImport(obj, overwrite)

NextModes ==
  \/ ModeImportClick
  \/ ImportWrite
  \/ ImportPutDone
  \/ EnsureReadOK
  \/ EnsureReadFail
  \/ RefreshOK
  \/ RefreshFail

SpecModes == InitImport /\ [][NextModes]_vars

\* importBackupFromJsonText(jsonText, overwrite) called now with document obj
\* leaves the same stores, settings, metadata, folder list and current recipe,
\* and the same continuation for its later steps, in both modes
ModesAgree(obj) ==
  importBackupFromJsonText(Cur, obj, TRUE) = importBackupFromJsonText(Cur, obj, FALSE)

====
